---- MODULE Spec2Model ----
(***************************************************************************)
(* Model of the katana media repository stack:                             *)
(*   - the base repository (repo.mutableRepo): two in-memory indices and   *)
(*     the filesystem scanner;                                             *)
(*   - the mux decorator (mux.muxRepo) with its keyed mutex (sync.KMutex); *)
(*   - the watch decorator (watch.watchRepo): debounced event handling;    *)
(*   - the index decorator (index.indexedRepository): save / copy;         *)
(*   - the metadata sources (meta.compositeSource, fileAnalysisSource and  *)
(*     the tmdb source with its caches).                                   *)
(* Each subsystem has its own specifications (SpecRepo, SpecConc, SpecMux, *)
(* SpecGc, SpecRm, SpecStream, SpecWatch, SpecClose, SpecIndex, SpecLoad,  *)
(* SpecComp, SpecFa, SpecTmdb, ...); the variables of the other subsystems *)
(* stay unchanged.                                                         *)
(***************************************************************************)
EXTENDS Integers, Sequences, FiniteSets, TLC

VARIABLES
    disk,          \* set of absolute paths of the regular files in the tree
    itemsById,     \* mutableRepo.itemsById   : id      -> media
    itemsByPath,   \* mutableRepo.itemsByPath : relPath -> media
    ret,           \* the last step on the base: the operation and its error
    cache,         \* mux cache directories: cache file path -> "partial" | "complete"
    mx,            \* KMutex.mx: key -> [refCount, locked]
    call,          \* the concurrent Remux calls: caller -> its position and locals
    gc,            \* the call that deletes cache files (mux Scan / Remove / RemovePath)
    conv,          \* how often the converter (muxRepo.remux) was invoked, per destination
    okd,           \* the destinations a Remux call has returned without error
    cap,           \* muxRepo.cap: the capabilities the decorator was built with
    events,        \* watcher.Events: the filesystem events not yet received
    timers,        \* the timers map of handleFsEvents: event name -> timer
    tm,            \* the time.Timer objects: name, state, time left until they fire
    loop,          \* position of the event loop goroutine and the timer it holds
    hs,            \* running timer goroutines: <<name, position>> -> how many
    hist,          \* per path: what happened so far (events, gaps, handler runs)
    idxFile,       \* the file at indexedRepository.path
    oldFile,       \* the file at indexedRepository.oldPath (<index>.old)
    irmu,          \* indexedRepository.mu: the caller holding it, 0 when free
    ic,            \* the callers of the index decorator: position and locals
    saves,         \* the outcomes of the last two calls of save
    obs,           \* what the last concurrent reader (Items) observed
    kmx,           \* KMutex.mx of a keyed mutex used on its own: key -> instance
    insts,         \* the refCtMutex instances: refCount and the goroutine holding the lock
    kg,            \* the goroutines using the keyed mutex: position, key, instance held
    ac,            \* the concurrent callers of the base repository: position and locals
    wclosed,       \* fsnotify.Watcher closed: its Events and Errors channels are closed
    closes,        \* the Close calls made on the watch decorator, oldest first
    comp,          \* a FromFile call on the composite source: children, position, result
    fa,            \* a FromFile call on the file analysis source: name and delegated query
    movieSeriesCache, \* tmdb source.movieSeriesCache: numeric id -> metadata
    episodeCache,  \* tmdb source.episodeCache: <<id, season, episode>> -> metadata
    config,        \* tmdb source.config: the configuration was fetched
    tret           \* the last operation on the tmdb source: calls made, result, error

repoVars == <<disk, itemsById, itemsByPath, ret>>
muxVars == <<cache, mx, call, gc, conv, okd, cap>>
watchVars == <<events, timers, tm, loop, hs, hist>>
indexVars == <<idxFile, oldFile, irmu, ic, saves, obs>>
kmVars == <<kmx, insts, kg>>
baseVars == <<ac>>
closeVars == <<wclosed, closes>>
metaVars == <<comp, fa, movieSeriesCache, episodeCache, config, tret>>
vars == <<repoVars, muxVars, watchVars, indexVars, kmVars, baseVars, closeVars, metaVars>>

-----------------------------------------------------------------------------
(* Strings are sequences of one-character strings, so that SanitizeID,     *)
(* the dot-prefix test and the lexical walk order are computed.            *)

LowerLetters ==
    {"a","b","c","d","e","f","g","h","i","j","k","l","m",
     "n","o","p","q","r","s","t","u","v","w","x","y","z"}

Digits == {"0","1","2","3","4","5","6","7","8","9"}

\* idPattern / idCharExclusivePattern: the character class [a-z0-9-_]
IdChars == LowerLetters \cup Digits \cup {"-", "_"}

\* strings.ToLower on the characters the model uses
ToLower(c) ==
    CASE c = "A" -> "a"
      [] c = "B" -> "b"
      [] c = "Z" -> "z"
      [] OTHER -> c

\* commonDelimiterReplacer = strings.NewReplacer(" ", "-", ".", "-")
commonDelimiterReplacer(c) == IF c \in {" ", "."} THEN "-" ELSE c

RECURSIVE MapChars(_, _)
MapChars(s, i) ==
    IF i > Len(s) THEN <<>>
    ELSE <<ToLower(commonDelimiterReplacer(s[i]))>> \o MapChars(s, i + 1)

\* idCharExclusivePattern.ReplaceAllLiteralString(s, "")
DropNonId(s) == SelectSeq(s, LAMBDA c : c \in IdChars)

\* media.SanitizeID
SanitizeID(s) == DropNonId(MapChars(s, 1))

\* media.ValidID: ^[a-z0-9-_]+$
ValidID(s) == Len(s) > 0 /\ \A i \in 1..Len(s) : s[i] \in IdChars

-----------------------------------------------------------------------------
(* Paths are sequences of names; a name is a sequence of characters.       *)

Root == << <<"r">> >>

Name_A   == <<"A", ".", "m", "k", "v">>
Name_a   == <<"a", ".", "m", "k", "v">>
Name_n   == <<"n", ".", "t", "x", "t">>
Name_z   == <<"z", ".", "m", "p", "4">>
Name_dot == <<".", "h", ".", "m", "p", "4">>
Name_s   == <<"s">>

File_A   == Root \o <<Name_A>>            \* r/A.mkv   video/x-matroska
File_n   == Root \o <<Name_n>>            \* r/n.txt   text/plain
File_sa  == Root \o <<Name_s, Name_a>>    \* r/s/a.mkv video/x-matroska
File_z   == Root \o <<Name_z>>            \* r/z.mp4   video/mp4
File_dot == Root \o <<Name_dot>>          \* r/.h.mp4  video/mp4

Files == {File_A, File_n, File_sa, File_z, File_dot}

MimeMKV == "video/x-matroska"
MimeMP4 == "video/mp4"
MimeTXT == "text/plain"

\* mimetype.DetectFile: the MIME type the content of each file is detected as
DetectFile(path) ==
    CASE path = File_A  -> MimeMKV
      [] path = File_sa -> MimeMKV
      [] path = File_n  -> MimeTXT
      [] OTHER -> MimeMP4

\* strings.SplitN(format.MIME, "/", 2)[0]
MimeGroup(mime) ==
    CASE mime = MimeTXT -> "text"
      [] OTHER -> "video"

allowedMimeGroups == {"video", "audio"}

Base(path) == path[Len(path)]

RECURSIVE CommonPrefix(_, _, _)
CommonPrefix(a, b, i) ==
    IF i > Len(a) \/ i > Len(b) \/ a[i] # b[i] THEN i - 1
    ELSE CommonPrefix(a, b, i + 1)

\* filepath.Rel(base, target) for two absolute paths: never an error
Rel(base, target) ==
    LET k  == CommonPrefix(base, target, 1)
        up == [i \in 1..(Len(base) - k) |-> <<".", ".">>]
    IN  IF up = <<>> /\ k = Len(target) THEN << <<".">> >>
        ELSE up \o SubSeq(target, k + 1, Len(target))

\* byte values of the characters, for the lexical order of filepath.WalkDir
CharCode(c) ==
    CASE c = " " -> 32 [] c = "%" -> 37 [] c = "." -> 46
      [] c = "0" -> 48 [] c = "1" -> 49 [] c = "2" -> 50 [] c = "3" -> 51
      [] c = "4" -> 52
      [] c = "A" -> 65 [] c = "B" -> 66 [] c = "Z" -> 90
      [] c = "a" -> 97 [] c = "b" -> 98 [] c = "c" -> 99 [] c = "e" -> 101
      [] c = "h" -> 104 [] c = "k" -> 107 [] c = "m" -> 109 [] c = "n" -> 110
      [] c = "p" -> 112 [] c = "r" -> 114 [] c = "s" -> 115 [] c = "t" -> 116
      [] c = "u" -> 117 [] c = "v" -> 118 [] c = "w" -> 119 [] c = "x" -> 120
      [] c = "z" -> 122
      [] OTHER -> 127

RECURSIVE NameLess(_, _, _)
NameLess(a, b, i) ==
    IF i > Len(b) THEN FALSE
    ELSE IF i > Len(a) THEN TRUE
    ELSE IF a[i] = b[i] THEN NameLess(a, b, i + 1)
    ELSE CharCode(a[i]) < CharCode(b[i])

RECURSIVE PathLess(_, _, _)
PathLess(p, q, i) ==
    IF i > Len(q) THEN FALSE
    ELSE IF i > Len(p) THEN TRUE
    ELSE IF p[i] = q[i] THEN PathLess(p, q, i + 1)
    ELSE NameLess(p[i], q[i], 1)

\* filepath.WalkDir visits the entries of every directory in lexical order
RECURSIVE WalkOrder(_)
WalkOrder(S) ==
    IF S = {} THEN <<>>
    ELSE LET first == CHOOSE x \in S : \A y \in S \ {x} : PathLess(x, y, 1)
         IN  <<first>> \o WalkOrder(S \ {first})

DotPrefixed(name) == Len(name) > 0 /\ name[1] = "."

-----------------------------------------------------------------------------
(* Base repository: repo.mutableRepo                                       *)

\* media.NewMedia
NewMedia(id, path, mime) == [id |-> id, path |-> path, mime |-> mime]

ErrNil == [kind |-> "nil", addr |-> "nil"]

\* an error value: its dynamic type and the address of the allocation
Err(kind, addr) == [kind |-> kind, addr |-> addr]

\* errors.Is(err, target): both are *ErrInvalidMediaType pointers, the type has no
\* Is or Unwrap method, so the test is pointer equality
ErrorsIs(err, target) == err.addr = target.addr

MapPut(f, k, v) == [x \in DOMAIN f \cup {k} |-> IF x = k THEN v ELSE f[x]]
MapDel(f, k) == [x \in DOMAIN f \ {k} |-> f[x]]
EmptyMap == [x \in {} |-> x]

\* mutableRepo.addItem, on a pair of maps
addItem(ix, id, path, m) ==
    [byId |-> MapPut(ix.byId, id, m), byPath |-> MapPut(ix.byPath, path, m)]

\* removeItem that leaves the path index alone
removeItem_IdOnly(ix, id, path) ==
    [byId |-> MapDel(ix.byId, id), byPath |-> ix.byPath]

\* mutableRepo.removeItem, on a pair of maps
removeItem(ix, id, path) ==
    [byId |-> MapDel(ix.byId, id), byPath |-> MapDel(ix.byPath, path)]

\* mutableRepo.checkFormat
checkFormat(path, mime) ==
    IF MimeGroup(mime) \notin allowedMimeGroups
    THEN Err("ErrInvalidMediaType", "checkFormat")
    ELSE ErrNil

\* mutableRepo.detectAndCheckFormat: [format, err]
detectAndCheckFormat(path) ==
    IF path \notin disk
    THEN [format |-> "", err |-> Err("detect", "detect")]
    ELSE [format |-> DetectFile(path), err |-> checkFormat(path, DetectFile(path))]

\* the callback of filepath.WalkDir in mutableRepo.Scan, for one regular file;
\* st = [byId, byPath, err], unchanged once the walk has been aborted
ScanVisit(st, path) ==
    LET relPath == Rel(Root, path)
        dc      == detectAndCheckFormat(path)
        eimt    == Err("ErrInvalidMediaType", "eimt")  \* var eimt ErrInvalidMediaType
        id      == SanitizeID(Base(path))
    IN  IF st.err # ErrNil THEN st
        ELSE IF \E i \in 1..Len(relPath) : DotPrefixed(relPath[i]) THEN st
        ELSE IF relPath \in DOMAIN st.byPath THEN st
        ELSE IF dc.err # ErrNil
             THEN IF ErrorsIs(dc.err, eimt) THEN st
                  ELSE [st EXCEPT !.err = dc.err]
        ELSE addItem(st, id, relPath, NewMedia(id, path, dc.format)) @@ [err |-> ErrNil]

RECURSIVE ScanWalk(_, _, _)
ScanWalk(order, i, st) ==
    IF i > Len(order) THEN st
    ELSE ScanWalk(order, i + 1, ScanVisit(st, order[i]))

\* mutableRepo.Scan
Scan ==
    LET st == ScanWalk(WalkOrder(disk), 1,
                       [byId |-> itemsById, byPath |-> itemsByPath, err |-> ErrNil])
    IN  /\ itemsById' = st.byId
        /\ itemsByPath' = st.byPath
        /\ ret' = [op |-> "Scan",
                   err |-> st.err.kind]
        /\ UNCHANGED disk

\* mutableRepo.add, the part under mr.mu: the duplicate checks and addItem
addLocked(op, id, path, m) ==
    LET e  == IF id \in DOMAIN itemsById THEN "ErrDuplicateID"
              ELSE IF Rel(Root, path) \in DOMAIN itemsByPath THEN "ErrDuplicatePath"
              ELSE "nil"
        ix == addItem([byId |-> itemsById, byPath |-> itemsByPath], id, Rel(Root, path), m)
    IN  /\ itemsById' = IF e = "nil" THEN ix.byId ELSE itemsById
        /\ itemsByPath' = IF e = "nil" THEN ix.byPath ELSE itemsByPath
        /\ ret' = [op |-> op, err |-> e]
        /\ UNCHANGED disk

\* mutableRepo.add: os.Stat(path), then the locked part
add(op, id, path, m) ==
    IF path \notin disk
    THEN ret' = [op |-> op, err |-> "stat"] /\ UNCHANGED <<disk, itemsById, itemsByPath>>
    ELSE addLocked(op, id, path, m)

\* Add without the test of the id
Add_NoIDCheck(m) ==
    IF checkFormat(m.path, m.mime) # ErrNil
    THEN ret' = [op |-> "Add", err |-> "ErrInvalidMediaType"]
         /\ UNCHANGED <<disk, itemsById, itemsByPath>>
    ELSE add("Add", m.id, m.path, m)

\* mutableRepo.Add
Add(m) ==
    IF ~ValidID(m.id)
    THEN ret' = [op |-> "Add", err |-> "ErrInvalidID"]
         /\ UNCHANGED <<disk, itemsById, itemsByPath>>
    ELSE IF checkFormat(m.path, m.mime) # ErrNil
    THEN ret' = [op |-> "Add", err |-> "ErrInvalidMediaType"]
         /\ UNCHANGED <<disk, itemsById, itemsByPath>>
    ELSE add("Add", m.id, m.path, m)

\* mutableRepo.AddPath
AddPath(path) ==
    LET dc == detectAndCheckFormat(path)
        id == SanitizeID(Base(path))
    IN  IF dc.err # ErrNil
        THEN ret' = [op |-> "AddPath", err |-> dc.err.kind]
             /\ UNCHANGED <<disk, itemsById, itemsByPath>>
        ELSE add("AddPath", id, path, NewMedia(id, path, dc.format))

\* mutableRepo.Remove
Remove(m) ==
    LET ix == removeItem([byId |-> itemsById, byPath |-> itemsByPath],
                         m.id, Rel(Root, m.path))
    IN  /\ itemsById' = ix.byId
        /\ itemsByPath' = ix.byPath
        /\ ret' = [op |-> "Remove", err |-> "nil"]
        /\ UNCHANGED disk

\* mutableRepo.RemovePath
RemovePath(path) ==
    LET relPath == Rel(Root, path)
        ix == removeItem([byId |-> itemsById, byPath |-> itemsByPath],
                         itemsByPath[relPath].id, relPath)
    IN  /\ itemsById' = IF relPath \in DOMAIN itemsByPath THEN ix.byId ELSE itemsById
        /\ itemsByPath' = IF relPath \in DOMAIN itemsByPath THEN ix.byPath ELSE itemsByPath
        /\ ret' = [op |-> "RemovePath", err |-> "nil"]
        /\ UNCHANGED disk

\* mutableRepo.Items
Items == {itemsById[id] : id \in DOMAIN itemsById}

\* the filesystem around the repository: a file appears or disappears
CreateFile(path) ==
    /\ path \notin disk
    /\ disk' = disk \cup {path}
    /\ ret' = [op |-> "fs", err |-> "nil"]
    /\ UNCHANGED <<itemsById, itemsByPath>>

DeleteFile(path) ==
    /\ path \in disk
    /\ disk' = disk \ {path}
    /\ ret' = [op |-> "fs", err |-> "nil"]
    /\ UNCHANGED <<itemsById, itemsByPath>>

\* a media file in a directory beside the repository root
File_out == << <<"o">>, <<"x", ".", "m", "p", "4">> >>

\* the media values callers pass to Add and Remove
MediaInputs ==
    {NewMedia(SanitizeID(Base(f)), g, DetectFile(g)) :
        f \in {File_A, File_z}, g \in {File_A, File_z, File_n}}
    \cup {NewMedia(Name_A, File_A, DetectFile(File_A))}

\* repo.NewRepository: both maps empty
NewRepository ==
    /\ itemsById = EmptyMap
    /\ itemsByPath = EmptyMap
    /\ ret = [op |-> "New", err |-> "nil"]

\* Concurrent callers of the base repository.  Add and AddPath validate their
\* argument and call os.Stat before taking mr.mu; the duplicate checks and
\* addItem run under mr.mu.  Scan holds mr.mu from its first to its last line.
\* A critical section of mr.mu is one step of its caller.
NBase == 3

BaseCallers == 1..NBase

IdleBase == [pc |-> "idle", op |-> "", m |-> NewMedia(<<>>, <<>>, ""), err |-> "nil",
             took |-> {}]

NewCallers == ac = [c \in BaseCallers |-> IdleBase]

\* the return of a call
BaseDone(c, op, m, err, took) ==
    ac' = [ac EXCEPT ![c] = [pc |-> "done", op |-> op, m |-> m, err |-> err, took |-> took]]

\* mutableRepo.Add and mutableRepo.add up to mr.mu.Lock()
BaseAdd(c, m) ==
    /\ ac[c].pc = "idle"
    /\ IF ~ValidID(m.id) THEN BaseDone(c, "Add", m, "ErrInvalidID", {})
       ELSE IF checkFormat(m.path, m.mime) # ErrNil
            THEN BaseDone(c, "Add", m, "ErrInvalidMediaType", {})
       ELSE IF m.path \notin disk THEN BaseDone(c, "Add", m, "stat", {})
       ELSE ac' = [ac EXCEPT ![c] = [IdleBase EXCEPT !.pc = "lock", !.op = "Add", !.m = m]]
    /\ UNCHANGED repoVars

\* mutableRepo.AddPath and mutableRepo.add up to mr.mu.Lock()
BaseAddPath(c, path) ==
    LET dc == detectAndCheckFormat(path)
        id == SanitizeID(Base(path))
        m  == NewMedia(id, path, dc.format)
    IN  /\ ac[c].pc = "idle"
        /\ IF dc.err # ErrNil
           THEN BaseDone(c, "AddPath", NewMedia(id, path, ""), dc.err.kind, {})
           ELSE IF path \notin disk THEN BaseDone(c, "AddPath", m, "stat", {})
           ELSE ac' = [ac EXCEPT ![c] = [IdleBase EXCEPT !.pc = "lock", !.op = "AddPath",
                                                         !.m = m]]
        /\ UNCHANGED repoVars

\* mutableRepo.add from mr.mu.Lock() to the deferred Unlock
BaseLocked(c) ==
    /\ ac[c].pc = "lock"
    /\ addLocked(ac[c].op, ac[c].m.id, ac[c].m.path, ac[c].m)
    /\ BaseDone(c, ac[c].op, ac[c].m, ret'.err,
                IF ret'.err = "nil" THEN {Rel(Root, ac[c].m.path)} ELSE {})

\* mutableRepo.Scan, all of it under mr.mu; took: the relative paths the call inserted
BaseScan(c) ==
    /\ ac[c].pc = "idle"
    /\ Scan
    /\ BaseDone(c, "Scan", IdleBase.m, ret'.err,
                (DOMAIN itemsByPath') \ (DOMAIN itemsByPath))

-----------------------------------------------------------------------------
(* Keyed mutex: sync.KMutex.  Make and Release run under km.mu, so each is *)
(* one step; Lock blocks until the mutex of the key is free.               *)

\* KMutex.Make
Make(key) ==
    mx' = IF key \in DOMAIN mx
          THEN [mx EXCEPT ![key].refCount = @ + 1]
          ELSE MapPut(mx, key, [refCount |-> 1, locked |-> FALSE])

\* KMutex.Release
Release(key) ==
    mx' = IF key \notin DOMAIN mx THEN mx
          ELSE IF mx[key].refCount - 1 <= 0 THEN MapDel(mx, key)
          ELSE [mx EXCEPT ![key].refCount = @ - 1]

\* refCtMutex.Lock
CanLock(key) == key \in DOMAIN mx /\ ~mx[key].locked
Lock(key) == mx' = [mx EXCEPT ![key].locked = TRUE]

\* refCtMutex.Unlock
Unlock(key) == mx' = [mx EXCEPT ![key].locked = FALSE]

-----------------------------------------------------------------------------
(* The keyed mutex with its instances: goroutines run Make(key), Lock,     *)
(* Unlock and Release(key) in balanced sequences, as KMutex.Do does, or    *)
(* Make(key) and Release(key) alone.  Release looks the key up in the map  *)
(* again; the lock a goroutine takes is the instance Make returned to it.  *)

NGo == 2
MaxIter == 2

Goroutines == 1..NGo
Keys == {"k1", "k2"}
InstIds == 1..(NGo + Cardinality(Keys))

NoInst == [refCount |-> 0, owner |-> 0]
IdleGo == [pc |-> "idle", key |-> "", mu |-> 0, iter |-> 0, joined |-> FALSE]

\* var km KMutex: the zero value
NewKMutex ==
    /\ kmx = EmptyMap
    /\ insts = [i \in InstIds |-> NoInst]
    /\ kg = [g \in Goroutines |-> IdleGo]

\* the instances neither in the map nor referenced by a goroutine
FreeInsts == {i \in InstIds : (\A k \in DOMAIN kmx : kmx[k] # i)
                              /\ (\A g \in Goroutines : kg[g].mu # i)}

\* Make that never finds the key: a new instance replaces the entry
GoMake_AlwaysNew(g, key) ==
    /\ kg[g].pc = "idle"
    /\ kg[g].iter < MaxIter
    /\ FreeInsts # {}
    /\ LET i == CHOOSE j \in FreeInsts : \A h \in FreeInsts : j <= h
       IN  /\ insts' = [insts EXCEPT ![i] = [refCount |-> 1, owner |-> 0]]
           /\ kmx' = MapPut(kmx, key, i)
           /\ kg' = [kg EXCEPT ![g].pc = "made", ![g].key = key, ![g].mu = i]

\* Make that keeps one entry for all keys
GoMake_OneKey(g, key) ==
    /\ kg[g].pc = "idle"
    /\ kg[g].iter < MaxIter
    /\ IF "k1" \in DOMAIN kmx
       THEN /\ insts' = [insts EXCEPT ![kmx["k1"]].refCount = @ + 1]
            /\ kg' = [kg EXCEPT ![g].pc = "made", ![g].key = key,
                                ![g].mu = kmx["k1"], ![g].joined = TRUE]
            /\ UNCHANGED kmx
       ELSE LET i == CHOOSE j \in FreeInsts : \A h \in FreeInsts : j <= h
            IN  /\ insts' = [insts EXCEPT ![i] = [refCount |-> 1, owner |-> 0]]
                /\ kmx' = MapPut(kmx, "k1", i)
                /\ kg' = [kg EXCEPT ![g].pc = "made", ![g].key = key, ![g].mu = i]

\* KMutex.Make(key) by goroutine g, under km.mu
GoMake(g, key) ==
    /\ kg[g].pc = "idle"
    /\ kg[g].iter < MaxIter
    /\ IF key \in DOMAIN kmx
       THEN /\ insts' = [insts EXCEPT ![kmx[key]].refCount = @ + 1]
            /\ kg' = [kg EXCEPT ![g].pc = "made", ![g].key = key,
                                ![g].mu = kmx[key], ![g].joined = TRUE]
            /\ UNCHANGED kmx
       ELSE LET i == CHOOSE j \in FreeInsts : \A h \in FreeInsts : j <= h
            IN  /\ insts' = [insts EXCEPT ![i] = [refCount |-> 1, owner |-> 0]]
                /\ kmx' = MapPut(kmx, key, i)
                /\ kg' = [kg EXCEPT ![g].pc = "made", ![g].key = key, ![g].mu = i]

\* mu.Lock() on the instance Make returned: blocks while it is locked
GoLock(g) ==
    /\ kg[g].pc = "made"
    /\ insts[kg[g].mu].owner = 0
    /\ insts' = [insts EXCEPT ![kg[g].mu].owner = g]
    /\ kg' = [kg EXCEPT ![g].pc = "action"]
    /\ UNCHANGED kmx

\* the action has returned: mu.Unlock()
GoUnlock(g) ==
    /\ kg[g].pc = "action"
    /\ insts' = [insts EXCEPT ![kg[g].mu].owner = 0]
    /\ kg' = [kg EXCEPT ![g].pc = "unlocked"]
    /\ UNCHANGED kmx

\* Release that decrements and never deletes the entry
GoRelease_KeepEntry(g) ==
    /\ kg[g].pc \in {"made", "unlocked"}
    /\ IF kg[g].key \in DOMAIN kmx
       THEN insts' = [insts EXCEPT ![kmx[kg[g].key]].refCount = @ - 1]
       ELSE UNCHANGED insts
    /\ UNCHANGED kmx
    /\ kg' = [kg EXCEPT ![g].pc = "idle", ![g].key = "", ![g].mu = 0,
                        ![g].iter = @ + 1]

\* Release that deletes the entry whatever its reference count
GoRelease_AlwaysDelete(g) ==
    /\ kg[g].pc \in {"made", "unlocked"}
    /\ IF kg[g].key \in DOMAIN kmx
       THEN /\ insts' = [insts EXCEPT ![kmx[kg[g].key]].refCount = @ - 1]
            /\ kmx' = MapDel(kmx, kg[g].key)
       ELSE UNCHANGED <<kmx, insts>>
    /\ kg' = [kg EXCEPT ![g].pc = "idle", ![g].key = "", ![g].mu = 0,
                        ![g].iter = @ + 1]

\* KMutex.Release(key) by goroutine g, under km.mu
GoRelease(g) ==
    /\ kg[g].pc \in {"made", "unlocked"}
    /\ IF kg[g].key \in DOMAIN kmx
       THEN /\ insts' = [insts EXCEPT ![kmx[kg[g].key]].refCount = @ - 1]
            /\ kmx' = IF insts[kmx[kg[g].key]].refCount - 1 <= 0
                      THEN MapDel(kmx, kg[g].key) ELSE kmx
       ELSE UNCHANGED <<kmx, insts>>
    /\ kg' = [kg EXCEPT ![g].pc = "idle", ![g].key = "", ![g].mu = 0,
                        ![g].iter = @ + 1]

-----------------------------------------------------------------------------
(* Mux decorator: mux.muxRepo                                              *)

NCallers == 2

Callers == 1..NCallers

FormatMP4 == [name |-> "MP4", mime |-> MimeMP4, ext |-> <<"m", "p", "4">>]
FormatMKV == [name |-> "MKV", mime |-> MimeMKV, ext |-> <<"m", "k", "v">>]
\* a format without a muxer, as media.FindUnsupportedFormat builds it
FormatWebM == [name |-> "", mime |-> "video/webm", ext |-> <<"w", "e", "b", "m">>]

\* the formats map of package mux: the formats that have a muxer
formats == {FormatMP4, FormatMKV}

TargetFormats == {FormatMP4, FormatMKV, FormatWebM}

\* repo.CapabilityRemux | repo.CapabilityTranscode, and the capability sets
\* of a decorator that can remux
AllCaps == {"remux", "transcode"}
MuxCaps == {{"remux"}, AllCaps}

CacheRoot == << <<"c">> >>
remuxPath == CacheRoot \o << <<"r", "e", "m", "u", "x">> >>

\* makeHash: the MD5 of the first MiB and the size, a function of the content;
\* r/A.mkv and r/s/a.mkv hold the same bytes
makeHash(path) ==
    CASE path = File_A  -> <<"h", "1">>
      [] path = File_sa -> <<"h", "1">>
      [] path = File_z  -> <<"h", "2">>
      [] OTHER -> <<"h", "3">>

\* filepath.Ext: the suffix that starts at the last dot
RECURSIVE LastDot(_, _)
LastDot(name, i) ==
    IF i = 0 THEN 0 ELSE IF name[i] = "." THEN i ELSE LastDot(name, i - 1)

Ext(name) ==
    IF LastDot(name, Len(name)) = 0 THEN <<>>
    ELSE SubSeq(name, LastDot(name, Len(name)), Len(name))

\* strings.TrimSuffix(name, filepath.Ext(name))
TrimExt(name) == SubSeq(name, 1, Len(name) - Len(Ext(name)))

\* filepath.Join(mr.remuxPath, hash+"."+format.Extension)
RemuxedPath(hash, format) == remuxPath \o <<hash \o <<".">> \o format.ext>>

NoMedia == [id |-> <<>>, path |-> <<>>, mime |-> ""]

\* relocatedMedia: the embedded source media, with Path() and MIME()
\* answered from the fields path and mime
Relocated(m, path, mime) == [id |-> m.id, path |-> path, mime |-> mime, Media |-> m]

\* m.Format().MIME: relocatedMedia declares Path and MIME only, so Format is
\* the promoted method of the embedded media; a stored media answers with
\* its own format
FormatMIME(m) == IF "Media" \in DOMAIN m THEN m.Media.mime ELSE m.mime

\* media.FindFormat: the format of a name, nil when the name is unknown
NoFormat == [name |-> "", mime |-> "", ext |-> <<>>]
FindFormat(name) ==
    CASE name = "mp4" -> FormatMP4
      [] name = "mkv" -> FormatMKV
      [] OTHER -> NoFormat

\* the answer of GetRepoMediaStream: a streamResp, a 400 response or an error
NoResp == [status |-> 0, path |-> <<>>, mime |-> "", raw |-> FALSE]

IdleCall ==
    [pc |-> "idle", id |-> <<>>, fmt |-> FormatMP4, m |-> NoMedia,
     dst |-> <<>>, res |-> NoMedia, err |-> "nil", boot |-> 0, resp |-> NoResp]

IdleGc == [pc |-> "idle", op |-> "", hashes |-> {}, todo |-> <<>>, err |-> "nil",
           gone |-> {}]

\* mux.NewRepository over an empty cache directory
NewMuxRepository ==
    /\ cache = EmptyMap
    /\ mx = EmptyMap
    /\ call = [c \in Callers |-> IdleCall]
    /\ gc = IdleGc
    /\ conv = EmptyMap
    /\ okd = {}

\* RemuxGet without the fast path
RemuxGet_NoFastPath(c, id, format) ==
    /\ call[c].pc = "idle"
    /\ LET m == IF id \in DOMAIN itemsById THEN itemsById[id] ELSE NoMedia
       IN  call' = [call EXCEPT ![c] =
               IF m = NoMedia THEN [@ EXCEPT !.pc = "done", !.id = id, !.fmt = format]
               ELSE [@ EXCEPT !.pc = "hash", !.id = id, !.fmt = format, !.m = m]]
    /\ UNCHANGED <<repoVars, watchVars, indexVars, kmVars, baseVars, closeVars, metaVars, cap, okd, cache, mx, gc, conv>>

\* muxRepo.Remux, up to the fast path: Get(id), nil check, MIME comparison
RemuxGet(c, id, format) ==
    /\ call[c].pc = "idle"
    /\ LET m == IF id \in DOMAIN itemsById THEN itemsById[id] ELSE NoMedia
       IN  call' = [call EXCEPT ![c] =
               IF m = NoMedia THEN [@ EXCEPT !.pc = "done", !.id = id, !.fmt = format]
               ELSE IF m.mime = format.mime
               THEN [@ EXCEPT !.pc = "done", !.id = id, !.fmt = format, !.m = m, !.res = m]
               ELSE [@ EXCEPT !.pc = "hash", !.id = id, !.fmt = format, !.m = m]]
    /\ UNCHANGED <<repoVars, watchVars, indexVars, kmVars, baseVars, closeVars, metaVars, cap, okd, cache, mx, gc, conv>>

\* muxRepo.Remux: makeHash(path) and the destination path
RemuxHash(c) ==
    /\ call[c].pc = "hash"
    /\ call' = [call EXCEPT ![c] =
           IF call[c].m.path \notin disk
           THEN [@ EXCEPT !.pc = "done", !.err = "hash"]
           ELSE [@ EXCEPT !.pc = "make",
                          !.dst = RemuxedPath(makeHash(call[c].m.path), call[c].fmt)]]
    /\ UNCHANGED <<repoVars, watchVars, indexVars, kmVars, baseVars, closeVars, metaVars, cap, okd, cache, mx, gc, conv>>

\* KMutex.Do(path, ...): Make
RemuxMake(c) ==
    /\ call[c].pc = "make"
    /\ Make(call[c].m.path)
    /\ call' = [call EXCEPT ![c].pc = "lock"]
    /\ UNCHANGED <<repoVars, watchVars, indexVars, kmVars, baseVars, closeVars, metaVars, cap, okd, cache, gc, conv>>

\* KMutex.Do(path, ...): mu.Lock()
RemuxLock(c) ==
    /\ call[c].pc = "lock"
    /\ CanLock(call[c].m.path)
    /\ Lock(call[c].m.path)
    /\ call' = [call EXCEPT ![c].pc = "stat"]
    /\ UNCHANGED <<repoVars, watchVars, indexVars, kmVars, baseVars, closeVars, metaVars, cap, okd, cache, gc, conv>>

\* RemuxStat without the test for an existing cache file
RemuxStat_NoCacheCheck(c) ==
    /\ call[c].pc = "stat"
    /\ call' = [call EXCEPT ![c] =
           IF call[c].fmt \notin formats
           THEN [@ EXCEPT !.pc = "unlock", !.err = "ErrUnsupportedFormat"]
           ELSE [@ EXCEPT !.pc = "open"]]
    /\ UNCHANGED <<repoVars, watchVars, indexVars, kmVars, baseVars, closeVars, metaVars, cap, okd, cache, mx, gc, conv>>

\* the action of Remux: os.Stat(dst), then the lookup of the muxer
RemuxStat(c) ==
    /\ call[c].pc = "stat"
    /\ call' = [call EXCEPT ![c] =
           IF call[c].dst \in DOMAIN cache
           THEN [@ EXCEPT !.pc = "unlock",
                          !.res = Relocated(call[c].m, call[c].dst, call[c].fmt.mime)]
           ELSE IF call[c].fmt \notin formats
           THEN [@ EXCEPT !.pc = "unlock", !.err = "ErrUnsupportedFormat"]
           ELSE [@ EXCEPT !.pc = "open"]]
    /\ UNCHANGED <<repoVars, watchVars, indexVars, kmVars, baseVars, closeVars, metaVars, cap, okd, cache, mx, gc, conv>>

\* muxRepo.remux is entered: NewInputContext(src), NewOutputContext(muxer, dst);
\* the output context creates the file at dst
RemuxOpen(c, ok) ==
    /\ call[c].pc = "open"
    /\ conv' = MapPut(conv, call[c].dst,
                      IF call[c].dst \in DOMAIN conv THEN conv[call[c].dst] + 1 ELSE 1)
    /\ IF ok /\ call[c].m.path \in disk
       THEN /\ cache' = MapPut(cache, call[c].dst, "partial")
            /\ call' = [call EXCEPT ![c].pc = "conv"]
       ELSE /\ cache' = cache
            /\ call' = [call EXCEPT ![c].pc = "unlock", ![c].err = "remux"]
    /\ UNCHANGED <<repoVars, watchVars, indexVars, kmVars, baseVars, closeVars, metaVars, cap, okd, mx, gc>>

\* how the packet loop of muxRepo.remux ends: at io.EOF, with a failed
\* ReadFrame or WriteHeader, or with a failed WriteFrame or Clear
ConvOutcomes == {"eof", "read", "write"}

\* muxRepo.remux returns.  At io.EOF WriteEnd ends the file.  A failed
\* ReadFrame or WriteHeader returns the error and leaves what was written.
\* A failed WriteFrame assigns its error to an err that shadows the outer
\* one and breaks: the outer err is nil, WriteEnd runs and remux returns nil
\* over an output that lacks packets.
RemuxConv(c, how) ==
    /\ call[c].pc = "conv"
    /\ IF how = "eof"
       THEN /\ cache' = IF call[c].dst \in DOMAIN cache
                        THEN [cache EXCEPT ![call[c].dst] = "complete"] ELSE cache
            /\ call' = [call EXCEPT ![c].pc = "unlock",
                            ![c].res = Relocated(call[c].m, call[c].dst, call[c].fmt.mime)]
       ELSE IF how = "write"
       THEN /\ cache' = cache
            /\ call' = [call EXCEPT ![c].pc = "unlock",
                            ![c].res = Relocated(call[c].m, call[c].dst, call[c].fmt.mime)]
       ELSE /\ cache' = cache
            /\ call' = [call EXCEPT ![c].pc = "unlock", ![c].err = "remux"]
    /\ UNCHANGED <<repoVars, watchVars, indexVars, kmVars, baseVars, closeVars, metaVars, cap, okd, mx, gc, conv>>

\* KMutex.Do: mu.Unlock()
RemuxUnlock(c) ==
    /\ call[c].pc = "unlock"
    /\ Unlock(call[c].m.path)
    /\ call' = [call EXCEPT ![c].pc = "release"]
    /\ UNCHANGED <<repoVars, watchVars, indexVars, kmVars, baseVars, closeVars, metaVars, cap, okd, cache, gc, conv>>

\* KMutex.Do: km.Release(key), and Remux returns
RemuxRelease(c) ==
    /\ call[c].pc = "release"
    /\ Release(call[c].m.path)
    /\ call' = [call EXCEPT ![c].pc = "done"]
    /\ UNCHANGED <<repoVars, watchVars, indexVars, kmVars, baseVars, closeVars, metaVars, cap, cache, gc, conv>>
    /\ okd' = IF call[c].err = "nil" THEN okd \cup {call[c].dst} ELSE okd

\* the caller of Remux has used the result: the locals of the call are gone
RemuxReturn(c) ==
    /\ call[c].pc = "done"
    /\ call[c] # [IdleCall EXCEPT !.pc = "done", !.boot = call[c].boot]
    /\ call' = [call EXCEPT ![c] = [IdleCall EXCEPT !.pc = "done", !.boot = call[c].boot]]
    /\ UNCHANGED <<repoVars, watchVars, indexVars, kmVars, baseVars, closeVars, metaVars, cap, okd, cache, mx, gc, conv>>

\* Server.GetRepoMediaStream with a format other than "raw" that FindFormat
\* knows: the call of rp.Remux
StreamRemux(c, id, name) ==
    /\ name # "raw"
    /\ FindFormat(name) # NoFormat
    /\ RemuxGet(c, id, FindFormat(name))

\* Server.GetRepoMediaStream with a format FindFormat does not know
StreamUnknown(c, id, name) ==
    /\ call[c].pc = "idle"
    /\ name # "raw"
    /\ FindFormat(name) = NoFormat
    /\ call' = [call EXCEPT ![c].pc = "sent", ![c].id = id,
                            ![c].resp = [NoResp EXCEPT !.status = 400]]
    /\ UNCHANGED <<repoVars, watchVars, indexVars, kmVars, baseVars, closeVars, metaVars, cap, okd, cache, mx, gc, conv>>

\* Server.GetRepoMediaStream with the format "raw": rp.Get, then the answer
StreamRaw(c, id) ==
    /\ call[c].pc = "idle"
    /\ call' = [call EXCEPT ![c].pc = "sent", ![c].id = id,
           ![c].resp =
               IF id \notin DOMAIN itemsById THEN [NoResp EXCEPT !.status = 400, !.raw = TRUE]
               ELSE [status |-> 200, path |-> itemsById[id].path,
                     mime |-> FormatMIME(itemsById[id]), raw |-> TRUE]]
    /\ UNCHANGED <<repoVars, watchVars, indexVars, kmVars, baseVars, closeVars, metaVars, cap, okd, cache, mx, gc, conv>>

\* Server.GetRepoMediaStream after rp.Remux has returned: the error, the
\* nil check, then streamResp{path: m.Path(), mime: m.Format().MIME}
StreamRespond(c) ==
    /\ call[c].pc = "done"
    /\ call' = [call EXCEPT ![c].pc = "sent",
           ![c].resp =
               IF call[c].err # "nil" THEN [NoResp EXCEPT !.status = 500]
               ELSE IF call[c].res = NoMedia THEN [NoResp EXCEPT !.status = 400]
               ELSE [status |-> 200, path |-> call[c].res.path,
                     mime |-> FormatMIME(call[c].res), raw |-> FALSE]]
    /\ UNCHANGED <<repoVars, watchVars, indexVars, kmVars, baseVars, closeVars, metaVars, cap, okd, cache, mx, gc, conv>>

MaxBoots == 1

\* a restart that empties the cache directory
MuxRestart_ClearsCache ==
    /\ \A c \in Callers : call[c].pc \in {"idle", "done"}
    /\ \A c \in Callers : call[c].boot < MaxBoots
    /\ mx' = EmptyMap
    /\ cache' = EmptyMap
    /\ call' = [c \in Callers |-> [IdleCall EXCEPT !.boot = call[c].boot + 1]]
    /\ UNCHANGED <<repoVars, watchVars, indexVars, kmVars, baseVars, closeVars, metaVars, cap, okd, gc, conv>>

\* the process restarts: mux.NewRepository over the same cache directory,
\* with a new KMutex; the cache files stay
MuxRestart ==
    /\ \A c \in Callers : call[c].pc \in {"idle", "done"}
    /\ \A c \in Callers : call[c].boot < MaxBoots
    /\ mx' = EmptyMap
    /\ call' = [c \in Callers |-> [IdleCall EXCEPT !.boot = call[c].boot + 1]]
    /\ UNCHANGED <<repoVars, watchVars, indexVars, kmVars, baseVars, closeVars, metaVars, cap, okd, cache, gc, conv>>

\* the process restarts: a new base repository without items, and
\* mux.NewRepository over the same cache directory with a new KMutex
Reboot ==
    /\ \A c \in Callers : call[c].pc \in {"idle", "done"}
    /\ \A c \in Callers : call[c].boot < MaxBoots
    /\ gc.pc = "idle"
    /\ itemsById' = EmptyMap
    /\ itemsByPath' = EmptyMap
    /\ ret' = [op |-> "New", err |-> "nil"]
    /\ mx' = EmptyMap
    /\ call' = [c \in Callers |-> [IdleCall EXCEPT !.boot = call[c].boot + 1]]
    /\ UNCHANGED <<disk, watchVars, indexVars, kmVars, baseVars, closeVars, metaVars, cap, okd, cache, gc, conv>>

\* the cache files walkCache visits, in walk order
CacheFiles == WalkOrder(DOMAIN cache)

\* the callback of Scan with the test of remove: it selects the live files
Matching_LiveFiles(scan, hashes) ==
    SelectSeq(CacheFiles, LAMBDA f : TrimExt(Base(f)) \in hashes)

\* the walked cache files whose hash is (scan = FALSE) or is not (scan = TRUE)
\* among the hashes
Matching(scan, hashes) ==
    SelectSeq(CacheFiles, LAMBDA f : (TrimExt(Base(f)) \in hashes) # scan)

\* muxRepo.Remove: makeHash, the wrapped Remove, then the listing of remove(hash)
MuxRemove(m) ==
    /\ gc.pc = "idle"
    /\ IF m.path \notin disk
       THEN /\ gc' = [gc EXCEPT !.pc = "done", !.op = "Remove", !.err = "hash"]
            /\ UNCHANGED repoVars
       ELSE /\ Remove(m)
            /\ gc' = [gc EXCEPT !.pc = "list", !.op = "Remove",
                                !.hashes = {makeHash(m.path)}]
    /\ UNCHANGED <<watchVars, indexVars, kmVars, baseVars, closeVars, metaVars, cap, okd, cache, mx, call, conv>>

\* muxRepo.RemovePath
MuxRemovePath(path) ==
    /\ gc.pc = "idle"
    /\ IF path \notin disk
       THEN /\ gc' = [gc EXCEPT !.pc = "done", !.op = "RemovePath", !.err = "hash"]
            /\ UNCHANGED repoVars
       ELSE /\ RemovePath(path)
            /\ gc' = [gc EXCEPT !.pc = "list", !.op = "RemovePath",
                                !.hashes = {makeHash(path)}]
    /\ UNCHANGED <<watchVars, indexVars, kmVars, baseVars, closeVars, metaVars, cap, okd, cache, mx, call, conv>>

\* muxRepo.Scan: the wrapped Scan, the snapshot of Items() and their hashes
MuxScan ==
    /\ gc.pc = "idle"
    /\ Scan
    /\ gc' = IF ret'.err # "nil"
             THEN [gc EXCEPT !.pc = "done", !.op = "Scan", !.err = ret'.err]
             ELSE IF \E id \in DOMAIN itemsById' : itemsById'[id].path \notin disk
             THEN [gc EXCEPT !.pc = "done", !.op = "Scan", !.err = "hash"]
             ELSE [gc EXCEPT !.pc = "list", !.op = "Scan",
                     !.hashes = {makeHash(itemsById'[id].path) : id \in DOMAIN itemsById'}]
    /\ UNCHANGED <<watchVars, indexVars, kmVars, baseVars, closeVars, metaVars, cap, okd, cache, mx, call, conv>>

\* walkCache: walkFiles(mr.remuxPath), then, when that walk returned nil,
\* walkFiles(mr.transcodePath).  The path of a capability the decorator was
\* built without is "": filepath.WalkDir("") hands the error of os.Lstat("")
\* to the callback, which returns it.  No code writes into the transcode
\* directory, so its walk visits no file.
WalkEnd(err) ==
    IF err # "nil" THEN err
    ELSE IF "transcode" \notin cap THEN "walk"
    ELSE "nil"

\* walkCache reads the directory; the callback selects the files to delete:
\* Scan those whose hash is not live, remove(hash) those named by the hash
GcList ==
    /\ gc.pc = "list"
    /\ LET todo == IF gc.op = "Scan"
                   THEN Matching(TRUE, gc.hashes)
                   ELSE Matching(FALSE, gc.hashes)
       IN  gc' = [gc EXCEPT !.todo = todo,
                            !.pc = IF todo = <<>> THEN "done" ELSE "make",
                            !.err = IF todo = <<>> THEN WalkEnd("nil") ELSE "nil"]
    /\ UNCHANGED <<repoVars, watchVars, indexVars, kmVars, baseVars, closeVars, metaVars, cap, okd, cache, mx, call, conv>>

\* mr.mu.Do(path, ...) for the cache file at the head of the list: Make
GcMake ==
    /\ gc.pc = "make"
    /\ Make(Head(gc.todo))
    /\ gc' = [gc EXCEPT !.pc = "lock"]
    /\ UNCHANGED <<repoVars, watchVars, indexVars, kmVars, baseVars, closeVars, metaVars, cap, okd, cache, call, conv>>

\* mu.Lock()
GcLock ==
    /\ gc.pc = "lock"
    /\ CanLock(Head(gc.todo))
    /\ Lock(Head(gc.todo))
    /\ gc' = [gc EXCEPT !.pc = "rm"]
    /\ UNCHANGED <<repoVars, watchVars, indexVars, kmVars, baseVars, closeVars, metaVars, cap, okd, cache, call, conv>>

\* os.Remove(path), under the lock of the cache file's path
GcRemove ==
    /\ gc.pc = "rm"
    /\ cache' = MapDel(cache, Head(gc.todo))
    /\ gc' = [gc EXCEPT !.pc = "unlock",
                        !.err = IF Head(gc.todo) \in DOMAIN cache THEN "nil" ELSE "remove",
                        !.gone = @ \cup ({Head(gc.todo)} \cap DOMAIN cache)]
    /\ UNCHANGED <<repoVars, watchVars, indexVars, kmVars, baseVars, closeVars, metaVars, cap, okd, mx, call, conv>>

\* mu.Unlock()
GcUnlock ==
    /\ gc.pc = "unlock"
    /\ Unlock(Head(gc.todo))
    /\ gc' = [gc EXCEPT !.pc = "release"]
    /\ UNCHANGED <<repoVars, watchVars, indexVars, kmVars, baseVars, closeVars, metaVars, cap, okd, cache, call, conv>>

\* km.Release(key); the walk goes on unless the callback returned an error
GcRelease ==
    /\ gc.pc = "release"
    /\ Release(Head(gc.todo))
    /\ gc' = [gc EXCEPT !.todo = Tail(@),
                        !.pc = IF gc.err # "nil" \/ Tail(gc.todo) = <<>>
                               THEN "done" ELSE "make",
                        !.err = IF gc.err # "nil" \/ Tail(gc.todo) = <<>>
                                THEN WalkEnd(gc.err) ELSE "nil"]
    /\ UNCHANGED <<repoVars, watchVars, indexVars, kmVars, baseVars, closeVars, metaVars, cap, okd, cache, call, conv>>

\* the call has returned; the next one may start
GcReturn ==
    /\ gc.pc = "done"
    /\ gc' = IdleGc
    /\ UNCHANGED <<repoVars, watchVars, indexVars, kmVars, baseVars, closeVars, metaVars, cap, okd, cache, mx, call, conv>>

\* the ids callers ask for, and the media they remove
RemuxIds == {SanitizeID(Name_A), SanitizeID(Name_z)}

MuxFiles == {File_A, File_z}


-----------------------------------------------------------------------------
(* Watch decorator: watch.watchRepo.  The event loop goroutine handles an  *)
(* event without time passing; timers fire no earlier than their deadline  *)
(* and their goroutines take any time.  Time advances in half windows.     *)

MaxEvents == 3

waitFor == 100

TickMs == waitFor \div 2

WatchFiles == {File_A, File_z}

\* watcher.WatchList(): the directories the watcher was added to
WatchList == {Root}

TimerIds == 1..MaxEvents

NoTimer == [name |-> <<>>, st |-> "none", left |-> 0]

HandlerPcs == {"stat", "detect", "addstat", "insert", "delete"}

NewHist == [evs |-> 0, gapOK |-> TRUE, since |-> waitFor, runs |-> 0, adds |-> 0,
            removed |-> FALSE]

\* watch.NewRepository: no event yet, the event loop is started
NewWatchRepository ==
    /\ events = <<>>
    /\ timers = EmptyMap
    /\ tm = [t \in TimerIds |-> NoTimer]
    /\ loop = [pc |-> "recv", t |-> 0]
    /\ hs = [k \in WatchFiles \X HandlerPcs |-> 0]
    /\ hist = [p \in WatchFiles |-> NewHist]

Range(f) == {f[x] : x \in DOMAIN f}

\* timer objects nothing refers to any more are collected
Collect(tmX, timersX, held) ==
    [t \in TimerIds |->
        IF tmX[t].st # "armed" /\ t \notin Range(timersX) /\ t # held
        THEN NoTimer ELSE tmX[t]]

FreeTimers == {t \in TimerIds : tm[t].st = "none" /\ t \notin Range(timers) /\ t # loop.t}

Min(S) == CHOOSE x \in S : \A y \in S : x <= y

TotalEvents == hist[File_A].evs + hist[File_z].evs

\* the filesystem: a chunk is written to a file (created when missing);
\* fsnotify sends Create or Write
FsWrite(p) ==
    /\ TotalEvents < MaxEvents
    /\ disk' = disk \cup {p}
    /\ events' = Append(events, [op |-> IF p \in disk THEN "Write" ELSE "Create",
                                 name |-> p])
    /\ hist' = [hist EXCEPT ![p] =
          [@ EXCEPT !.evs = hist[p].evs + 1,
                    !.gapOK = hist[p].gapOK /\ (hist[p].evs = 0 \/ hist[p].since < waitFor),
                    !.since = 0]]
    /\ UNCHANGED <<itemsById, itemsByPath, ret, timers, tm, loop, hs>>

\* the filesystem: a file is removed, or renamed to a name outside the tree;
\* fsnotify sends Remove or Rename for the old name
FsRemove(p, op) ==
    /\ TotalEvents < MaxEvents
    /\ p \in disk
    /\ disk' = disk \ {p}
    /\ events' = Append(events, [op |-> op, name |-> p])
    /\ hist' = [hist EXCEPT ![p].evs = @ + 1, ![p].removed = TRUE]
    /\ UNCHANGED <<itemsById, itemsByPath, ret, timers, tm, loop, hs>>

\* handleFsEvents, case e := <-wr.watcher.Events, Create or Write: the timer of
\* e.Name is looked up, and created stopped and stored when there is none
LoopRecvWrite ==
    /\ loop.pc = "recv"
    /\ events # <<>>
    /\ Head(events).op \in {"Create", "Write"}
    /\ events' = Tail(events)
    /\ LET name == Head(events).name
       IN  IF name \in DOMAIN timers
           THEN /\ loop' = [pc |-> "reset", t |-> timers[name]]
                /\ UNCHANGED <<timers, tm>>
           ELSE /\ FreeTimers # {}
                /\ timers' = MapPut(timers, name, Min(FreeTimers))
                /\ tm' = [tm EXCEPT ![Min(FreeTimers)] =
                             [name |-> name, st |-> "stopped", left |-> 0]]
                /\ loop' = [pc |-> "reset", t |-> Min(FreeTimers)]
    /\ UNCHANGED <<repoVars, hs, hist>>

\* LoopReset that arms a stopped timer and leaves a running one alone
LoopReset_NoRearm ==
    /\ loop.pc = "reset"
    /\ tm' = IF tm[loop.t].st = "armed" THEN tm
             ELSE [tm EXCEPT ![loop.t].st = "armed", ![loop.t].left = waitFor]
    /\ loop' = [pc |-> "recv", t |-> 0]
    /\ UNCHANGED <<repoVars, events, timers, hs, hist>>

\* handleFsEvents: t.Reset(waitFor)
LoopReset ==
    /\ loop.pc = "reset"
    /\ tm' = [tm EXCEPT ![loop.t].st = "armed", ![loop.t].left = waitFor]
    /\ loop' = [pc |-> "recv", t |-> 0]
    /\ UNCHANGED <<repoVars, events, timers, hs, hist>>

\* handleFsEvents, Remove or Rename: handleFsEvent runs in the loop goroutine:
\* dot-prefixed names are ignored, a watched directory is unwatched, any other
\* name goes to RemovePath
LoopRecvRemove ==
    /\ loop.pc = "recv"
    /\ events # <<>>
    /\ Head(events).op \in {"Remove", "Rename"}
    /\ events' = Tail(events)
    /\ IF DotPrefixed(Base(Head(events).name)) \/ Head(events).name \in WatchList
       THEN UNCHANGED repoVars
       ELSE RemovePath(Head(events).name)
    /\ UNCHANGED <<timers, tm, loop, hs, hist>>

\* the timer fires: its function starts in a goroutine of its own
FireTimer(t) ==
    /\ tm[t].st = "armed"
    /\ tm[t].left = 0
    /\ hs' = [hs EXCEPT ![<<tm[t].name, "stat">>] = @ + 1]
    /\ tm' = Collect([tm EXCEPT ![t].st = "stopped"], timers, loop.t)
    /\ hist' = [hist EXCEPT ![tm[t].name].runs = @ + 1]
    /\ UNCHANGED <<repoVars, events, timers, loop>>

Move(p, from, to) ==
    [hs EXCEPT ![<<p, from>>] = @ - 1, ![<<p, to>>] = @ + 1]

\* handleFsEvent, Create or Write: the dot-prefix test and os.Stat(event.Name)
HandlerStat(p) ==
    /\ hs[<<p, "stat">>] > 0
    /\ hs' = IF DotPrefixed(Base(p)) \/ p \notin disk
             THEN Move(p, "stat", "delete")
             ELSE Move(p, "stat", "detect")
    /\ UNCHANGED <<repoVars, events, timers, tm, loop, hist>>

\* wr.AddPath(event.Name): detectAndCheckFormat and FromFile
HandlerDetect(p) ==
    /\ hs[<<p, "detect">>] > 0
    /\ hs' = IF detectAndCheckFormat(p).err # ErrNil
             THEN Move(p, "detect", "delete")
             ELSE Move(p, "detect", "addstat")
    /\ hist' = [hist EXCEPT ![p].adds = @ + 1]
    /\ UNCHANGED <<repoVars, events, timers, tm, loop>>

\* mutableRepo.add: os.Stat(path), before mr.mu is taken
HandlerAddStat(p) ==
    /\ hs[<<p, "addstat">>] > 0
    /\ hs' = IF p \notin disk
             THEN Move(p, "addstat", "delete")
             ELSE Move(p, "addstat", "insert")
    /\ UNCHANGED <<repoVars, events, timers, tm, loop, hist>>

\* mutableRepo.add under mr.mu: the duplicate checks and addItem
HandlerInsert(p) ==
    /\ hs[<<p, "insert">>] > 0
    /\ addLocked("AddPath", SanitizeID(Base(p)), p,
                 NewMedia(SanitizeID(Base(p)), p, DetectFile(p)))
    /\ hs' = Move(p, "insert", "delete")
    /\ UNCHANGED <<events, timers, tm, loop, hist>>

\* the timer function ends: delete(timers, e.Name)
HandlerDelete(p) ==
    /\ hs[<<p, "delete">>] > 0
    /\ hs' = [hs EXCEPT ![<<p, "delete">>] = @ - 1]
    /\ timers' = MapDel(timers, p)
    /\ tm' = Collect(tm, MapDel(timers, p), loop.t)
    /\ UNCHANGED <<repoVars, events, loop, hist>>

Dec(n) == IF n > TickMs THEN n - TickMs ELSE 0
Inc(n) == IF n + TickMs < waitFor THEN n + TickMs ELSE waitFor

\* time passes while the event loop waits for an event, or after it returned
Tick ==
    /\ loop.pc \in {"recv", "exit"}
    /\ events = <<>>
    /\ tm' = [t \in TimerIds |-> IF tm[t].st = "armed"
                                 THEN [tm[t] EXCEPT !.left = Dec(@)] ELSE tm[t]]
    /\ hist' = [p \in WatchFiles |-> [hist[p] EXCEPT !.since = Inc(@)]]
    /\ UNCHANGED <<repoVars, events, timers, loop, hs>>

\* the watcher is open and no Close call was made
NewWatcher ==
    /\ wclosed = FALSE
    /\ closes = <<>>

MaxCloses == 2

\* multierr.Combine of two errors, as far as it is nil or not
Combine(e1, e2) == IF e1 # "nil" THEN e1 ELSE e2

\* mutableRepo.Close, which the mux and index decorators promote unchanged
BaseClose == "nil"

\* Close that gives up when the watcher cannot be closed
WatchClose_StopOnError(werr) ==
    /\ Len(closes) < MaxCloses
    /\ werr \in (IF wclosed THEN {"nil"} ELSE {"nil", "close"})
    /\ wclosed' = TRUE
    /\ events' = <<>>
    /\ closes' = Append(closes,
          [werr |-> werr, delegated |-> werr = "nil",
           err |-> IF werr = "nil" THEN BaseClose ELSE werr])
    /\ UNCHANGED <<repoVars, timers, tm, loop, hs, hist>>

\* watchRepo.Close: both arguments of multierr.Combine are evaluated, the
\* watcher's Close first.  fsnotify closes Events and Errors, events not yet
\* received are dropped; closing a closed watcher returns nil
WatchClose(werr) ==
    /\ Len(closes) < MaxCloses
    /\ werr \in (IF wclosed THEN {"nil"} ELSE {"nil", "close"})
    /\ wclosed' = TRUE
    /\ events' = <<>>
    /\ closes' = Append(closes,
          [werr |-> werr, delegated |-> TRUE, err |-> Combine(werr, BaseClose)])
    /\ UNCHANGED <<repoVars, timers, tm, loop, hs, hist>>

\* handleFsEvents: a receive from a closed channel reports !ok, the loop returns
LoopExit ==
    /\ loop.pc = "recv"
    /\ wclosed
    /\ loop' = [pc |-> "exit", t |-> 0]
    /\ UNCHANGED <<repoVars, events, timers, tm, hs, hist>>


-----------------------------------------------------------------------------
(* Index decorator: index.indexedRepository.  os.WriteFile opens the file  *)
(* with O_TRUNC and then writes the bytes: between the two steps the file  *)
(* is empty, and it stays incomplete when the write fails or is cut short. *)
(* Every step of save that touches the filesystem may fail.                *)

NIdx == 2

IdxCallers == 1..NIdx

IdxFiles == {File_A, File_z}

\* the media values callers pass to Add and Remove of the decorator
IdxMedia == {NewMedia(SanitizeID(Base(f)), f, DetectFile(f)) : f \in IdxFiles}

\* the states of a file: missing, opened with O_TRUNC, fully written
Absent == [exists |-> FALSE, items |-> {}, complete |-> FALSE]
Truncated == [exists |-> TRUE, items |-> {}, complete |-> FALSE]
Written(bytes) == [exists |-> TRUE, items |-> bytes, complete |-> TRUE]

\* save: the items with paths relative to the repository, as json.Marshal
\* writes them
Marshal(items) == {NewMedia(m.id, Rel(Root, m.path), m.mime) : m \in items}

\* before: what Items() returned when the call in progress began
IdleIdx == [pc |-> "idle", bytes |-> {}, buf |-> Absent, sync |-> FALSE, err |-> "nil",
            before |-> {}]

NoObs == [seen |-> FALSE, inflight |-> FALSE, same |-> TRUE]

\* index.NewRepository on a path without an index file: load returns nil
NewIndexRepository ==
    /\ idxFile = Absent
    /\ oldFile = Absent
    /\ irmu = 0
    /\ ic = [c \in IdxCallers |-> IdleIdx]
    /\ saves = <<>>
    /\ obs = NoObs

\* the file records exactly the items in memory
Recorded(file) ==
    /\ file.items = Marshal(Items)
    /\ file.exists => file.complete

\* a decorator that saves whatever the delegated call returned
Delegate_AlwaysSaves(c) ==
    /\ ic[c].pc = "idle"
    /\ irmu = 0
    /\ irmu' = c
    /\ ic' = [ic EXCEPT ![c] = [IdleIdx EXCEPT
                !.pc = "save",
                !.before = Items,
                !.sync = Recorded(idxFile)]]
    /\ UNCHANGED <<idxFile, oldFile, saves, obs>>

\* ir.mu.Lock(), then the test of the error the delegated call returned
Delegate(c) ==
    /\ ic[c].pc = "idle"
    /\ irmu = 0
    /\ irmu' = c
    /\ ic' = [ic EXCEPT ![c] = [IdleIdx EXCEPT
                !.pc = IF ret'.err = "nil" THEN "save" ELSE "ret",
                !.err = ret'.err,
                !.before = Items,
                !.sync = Recorded(idxFile)]]
    /\ UNCHANGED <<idxFile, oldFile, saves, obs>>

\* indexedRepository.Scan
IdxScan(c) == Scan /\ Delegate(c)

\* indexedRepository.Add
IdxAdd(c, m) == Add(m) /\ Delegate(c)

\* indexedRepository.AddPath
IdxAddPath(c, path) == AddPath(path) /\ Delegate(c)

\* indexedRepository.Remove
IdxRemove(c, m) == Remove(m) /\ Delegate(c)

\* indexedRepository.RemovePath
IdxRemovePath(c, path) == RemovePath(path) /\ Delegate(c)

\* the outcomes of the last two calls of save
Log(e) == IF Len(saves) < 2 THEN Append(saves, e) ELSE <<saves[2], e>>

\* save returns an error
SaveFail(c) ==
    /\ ic' = [ic EXCEPT ![c].pc = "ret", ![c].err = "save"]
    /\ saves' = Log([ok |-> FALSE, data |-> ic'[c].bytes])

\* save: Items(), filepath.Rel, json.Marshal, os.MkdirAll
SaveMarshal(c, ok) ==
    /\ ic[c].pc = "save"
    /\ IF ok
       THEN /\ ic' = [ic EXCEPT ![c].pc = "copy", ![c].bytes = Marshal(Items)]
            /\ UNCHANGED saves
       ELSE /\ ic' = [ic EXCEPT ![c].pc = "ret", ![c].bytes = Marshal(Items),
                               ![c].err = "save"]
            /\ saves' = Log([ok |-> FALSE, data |-> Marshal(Items)])
    /\ UNCHANGED <<repoVars, idxFile, oldFile, irmu, obs>>

\* copy without the backup: the index file is taken as missing
CopyRead_NoBackup(c, ok) ==
    /\ ic[c].pc = "copy"
    /\ ok
    /\ ic' = [ic EXCEPT ![c].pc = "write"]
    /\ UNCHANGED <<repoVars, idxFile, oldFile, irmu, saves, obs>>

\* copy: os.ReadFile(ir.path); a missing file is not an error
CopyRead(c, ok) ==
    /\ ic[c].pc = "copy"
    /\ IF ~idxFile.exists
       THEN /\ ok
            /\ ic' = [ic EXCEPT ![c].pc = "write"]
            /\ UNCHANGED saves
       ELSE IF ok
       THEN /\ ic' = [ic EXCEPT ![c].pc = "copyopen", ![c].buf = idxFile]
            /\ UNCHANGED saves
       ELSE SaveFail(c)
    /\ UNCHANGED <<repoVars, idxFile, oldFile, irmu, obs>>

\* copy: os.WriteFile(ir.oldPath), the open with O_CREATE and O_TRUNC
CopyOpen(c, ok) ==
    /\ ic[c].pc = "copyopen"
    /\ IF ok
       THEN /\ oldFile' = Truncated
            /\ ic' = [ic EXCEPT ![c].pc = "copywrite"]
            /\ UNCHANGED saves
       ELSE SaveFail(c) /\ UNCHANGED oldFile
    /\ UNCHANGED <<repoVars, idxFile, irmu, obs>>

\* copy: os.WriteFile(ir.oldPath), the write of the bytes read
CopyWrite(c, ok) ==
    /\ ic[c].pc = "copywrite"
    /\ IF ok
       THEN /\ oldFile' = ic[c].buf
            /\ ic' = [ic EXCEPT ![c].pc = "write"]
            /\ UNCHANGED saves
       ELSE SaveFail(c) /\ UNCHANGED oldFile
    /\ UNCHANGED <<repoVars, idxFile, irmu, obs>>

\* save: os.WriteFile(ir.path), the open with O_CREATE and O_TRUNC
WriteOpen(c, ok) ==
    /\ ic[c].pc = "write"
    /\ IF ok
       THEN /\ idxFile' = Truncated
            /\ ic' = [ic EXCEPT ![c].pc = "writeend"]
            /\ UNCHANGED saves
       ELSE SaveFail(c) /\ UNCHANGED idxFile
    /\ UNCHANGED <<repoVars, oldFile, irmu, obs>>

\* save: os.WriteFile(ir.path), the write of the marshalled index
WriteEnd(c, ok) ==
    /\ ic[c].pc = "writeend"
    /\ IF ok
       THEN /\ idxFile' = Written(ic[c].bytes)
            /\ ic' = [ic EXCEPT ![c].pc = "ret"]
            /\ saves' = Log([ok |-> TRUE, data |-> ic[c].bytes])
       ELSE SaveFail(c) /\ UNCHANGED idxFile
    /\ UNCHANGED <<repoVars, oldFile, irmu, obs>>

\* the deferred ir.mu.Unlock() and the return to the caller
IdxReturn(c) ==
    /\ ic[c].pc = "ret"
    /\ irmu' = 0
    /\ ic' = [ic EXCEPT ![c] = IdleIdx]
    /\ UNCHANGED <<repoVars, idxFile, oldFile, saves, obs>>

\* positions between the delegated mutation and the end of save
InSave == {"save", "copy", "copyopen", "copywrite", "write", "writeend"}

\* a concurrent reader: Items is promoted from the embedded repository and
\* does not take ir.mu; whether it returns the set the index file records
ReadItems ==
    /\ obs' = [seen |-> TRUE,
               inflight |-> \E c \in IdxCallers : ic[c].pc \in InSave /\ ic[c].sync,
               same |-> Marshal(Items) = idxFile.items]
    /\ UNCHANGED <<repoVars, idxFile, oldFile, irmu, ic, saves>>

\* a file whose name holds no character of an id: SanitizeID gives ""
Name_pct == <<"%">>
File_pct == <<Root[1], Name_pct>>

\* filepath.Join(repoPath, item.Path()) for a relative path without ".."
Join(base, rel) == base \o rel

\* load: the Add of one index item on the fresh base repository, as
\* mutableRepo.Add and mutableRepo.add compute it; st = [byId, byPath, err]
LoadAdd(st, item) ==
    LET abs == Join(Root, item.path)
        rel == Rel(Root, abs)
        m   == NewMedia(item.id, abs, item.mime)
        e   == IF ~ValidID(item.id) THEN "ErrInvalidID"
               ELSE IF checkFormat(abs, item.mime) # ErrNil THEN "ErrInvalidMediaType"
               ELSE IF abs \notin disk THEN "stat"
               ELSE IF item.id \in DOMAIN st.byId THEN "ErrDuplicateID"
               ELSE IF rel \in DOMAIN st.byPath THEN "ErrDuplicatePath"
               ELSE "nil"
        ix  == addItem(st, item.id, rel, m)
    IN  IF e = "nil" THEN [byId |-> ix.byId, byPath |-> ix.byPath, err |-> "nil"]
        ELSE [st EXCEPT !.err = e]

\* load: the loop over ix.Items; the first failing Add ends the load.  An
\* item whose file is missing is skipped after ir.logger.Warn, which load
\* calls without the nil test it makes elsewhere: with a nil logger the
\* call dereferences nil and panics
RECURSIVE LoadItems(_, _, _, _)
LoadItems(seq, i, st, logger) ==
    IF i > Len(seq) \/ st.err # "nil" THEN st
    ELSE IF Join(Root, seq[i].path) \notin disk
    THEN IF logger THEN LoadItems(seq, i + 1, st, logger)
         ELSE [st EXCEPT !.err = "panic"]
    ELSE LoadItems(seq, i + 1, LoadAdd(st, seq[i]), logger)

\* the orders in which json.Marshal wrote the items (the order of Items())
Orders(S) == {q \in [1..Cardinality(S) -> S] : \A i, j \in 1..Cardinality(S) : q[i] = q[j] => i = j}

\* index.NewRepository(repo, path, logger) over a fresh base repository
\* with the same root: load.  logger tells whether the logger is non-nil.
\* A missing index file is not an error; a file that is not a whole JSON
\* document fails json.Unmarshal.
Reopen(logger) ==
    /\ \A c \in IdxCallers : ic[c].pc = "idle"
    /\ \E q \in Orders(idxFile.items) :
          LET fresh == [byId |-> EmptyMap, byPath |-> EmptyMap, err |-> "nil"]
              st == IF ~idxFile.exists THEN fresh
                    ELSE IF ~idxFile.complete THEN [fresh EXCEPT !.err = "unmarshal"]
                    ELSE LoadItems(q, 1, fresh, logger)
          IN  /\ itemsById' = st.byId
              /\ itemsByPath' = st.byPath
              /\ ret' = [op |-> "load", err |-> st.err]
    /\ UNCHANGED <<disk, indexVars>>

------------------------------------------------------------------------------
(* Metadata sources: meta.compositeSource, meta.fileAnalysisSource and the *)
(* tmdb source.  A child source and a remote call enter by their outcome.  *)

None == <<"none", 0>>

\* what one child returns from FromFile / FromQuery: (nil, nil), a metadata, an error
ChildOutcomes == {"none", "meta", "err"}

MaxChildren == 3

\* the children of a composite source, by what each would return
RECURSIVE SeqsUpTo(_, _)
SeqsUpTo(S, n) ==
    IF n = 0 THEN {<<>>}
    ELSE LET shorter == SeqsUpTo(S, n - 1)
         IN  shorter \cup {Append(q, x) : q \in {r \in shorter : Len(r) = n - 1}, x \in S}

IdleComp == [pc |-> "idle", op |-> "", kids |-> <<>>, asked |-> <<>>, m |-> None, err |-> None]

\* cs.FromFile(path) / cs.FromQuery(query) is called
CompStart(op, kids) ==
    /\ comp.pc = "idle"
    /\ comp' = [IdleComp EXCEPT !.pc = "loop", !.op = op, !.kids = kids]

\* a composite source that goes on to the next child after an error
CompNext_SkipError ==
    /\ comp.pc = "loop"
    /\ LET i == Len(comp.asked) + 1
       IN  IF i > Len(comp.kids)
           THEN comp' = [comp EXCEPT !.pc = "done"]
           ELSE IF comp.kids[i] = "meta"
           THEN comp' = [comp EXCEPT !.pc = "done", !.asked = Append(@, i), !.m = <<"meta", i>>]
           ELSE comp' = [comp EXCEPT !.asked = Append(@, i)]

\* one iteration of 'for _, source := range cs.sources': the child is asked,
\* an error or a metadata is returned at once; after the last child nil, nil
CompNext ==
    /\ comp.pc = "loop"
    /\ LET i == Len(comp.asked) + 1
       IN  IF i > Len(comp.kids)
           THEN comp' = [comp EXCEPT !.pc = "done"]
           ELSE IF comp.kids[i] = "err"
           THEN comp' = [comp EXCEPT !.pc = "done", !.asked = Append(@, i), !.err = <<"err", i>>]
           ELSE IF comp.kids[i] = "meta"
           THEN comp' = [comp EXCEPT !.pc = "done", !.asked = Append(@, i), !.m = <<"meta", i>>]
           ELSE comp' = [comp EXCEPT !.asked = Append(@, i)]

\* the caller has the result; the source may be called again
CompReturn ==
    /\ comp.pc = "done"
    /\ comp' = IdleComp

\* meta.fileAnalysisSource.  A file name is a sequence of characters.

DigitVal(c) ==
    CASE c = "0" -> 0 [] c = "1" -> 1 [] c = "2" -> 2 [] c = "3" -> 3 [] c = "4" -> 4
      [] c = "5" -> 5 [] c = "6" -> 6 [] c = "7" -> 7 [] c = "8" -> 8 [] OTHER -> 9

\* the index after the run of digits (\d+, greedy) that starts at i
RECURSIVE RunEnd(_, _)
RunEnd(str, i) ==
    IF i <= Len(str) /\ str[i] \in Digits THEN RunEnd(str, i + 1) ELSE i

\* episodePattern = (?i)S(\d+) ?[EX](\d+) tried at position p:
\* [ok, g1, g2, g0], the groups of the match
MatchAt(str, p) ==
    LET a == RunEnd(str, p + 1)
        b == IF a <= Len(str) /\ str[a] = " " THEN a + 1 ELSE a
        c == RunEnd(str, b + 1)
        ok == /\ p <= Len(str) /\ str[p] \in {"s", "S"}
              /\ a > p + 1
              /\ b <= Len(str) /\ str[b] \in {"e", "E", "x", "X"}
              /\ c > b + 1
    IN  [ok |-> ok,
         g1 |-> IF ok THEN SubSeq(str, p + 1, a - 1) ELSE <<>>,
         g2 |-> IF ok THEN SubSeq(str, b + 1, c - 1) ELSE <<>>,
         g0 |-> IF ok THEN SubSeq(str, p, c - 1) ELSE <<>>]

\* episodePattern.FindStringSubmatch: the leftmost match, ok = FALSE for nil
RECURSIVE FindStringSubmatch(_, _)
FindStringSubmatch(str, p) ==
    IF p > Len(str) THEN MatchAt(str, p)
    ELSE IF MatchAt(str, p).ok THEN MatchAt(str, p)
    ELSE FindStringSubmatch(str, p + 1)

\* strings.Index(str, sub) as a count of characters: where sub first occurs
RECURSIVE Index(_, _, _)
Index(str, sub, i) ==
    IF i + Len(sub) > Len(str) THEN -1
    ELSE IF SubSeq(str, i + 1, i + Len(sub)) = sub THEN i
    ELSE Index(str, sub, i + 1)

\* strings.TrimLeft(str, "0")
RECURSIVE TrimLeftZeros(_)
TrimLeftZeros(str) ==
    IF str # <<>> /\ Head(str) = "0" THEN TrimLeftZeros(Tail(str)) ELSE str

RECURSIVE DecVal(_, _)
DecVal(str, acc) ==
    IF str = <<>> THEN acc ELSE DecVal(Tail(str), acc * 10 + DigitVal(Head(str)))

\* n, _ := strconv.Atoi(str): the empty string is an error and leaves n = 0;
\* the digit runs of the names considered stay within the range of int
Atoi(str) == IF str = <<>> THEN 0 ELSE DecVal(str, 0)

\* meta's commonDelimiterReplacer = strings.NewReplacer("-", " ", "_", " ", ".", " ")
metaDelimiterReplacer(c) == IF c \in {"-", "_", "."} THEN " " ELSE c

\* strings.Fields: the maximal runs of characters that are not white space
RECURSIVE Fields(_, _, _)
Fields(str, i, word) ==
    IF i > Len(str) THEN (IF word = <<>> THEN <<>> ELSE <<word>>)
    ELSE IF str[i] = " "
    THEN (IF word = <<>> THEN <<>> ELSE <<word>>) \o Fields(str, i + 1, <<>>)
    ELSE Fields(str, i + 1, Append(word, str[i]))

\* strings.Join(words, " ")
RECURSIVE Join_Space(_)
Join_Space(words) ==
    IF words = <<>> THEN <<>>
    ELSE IF Len(words) = 1 THEN words[1]
    ELSE words[1] \o <<" ">> \o Join_Space(Tail(words))

\* strings.Join(strings.Fields(commonDelimiterReplacer.Replace(str)), " ")
CleanQuery(str) ==
    Join_Space(Fields([k \in 1..Len(str) |-> metaDelimiterReplacer(str[k])], 1, <<>>))

\* stripBracketLike: what lies between a bracket and its closing bracket is dropped
RECURSIVE stripBracketLike(_, _, _)
stripBracketLike(str, i, scrubUntil) ==
    IF i > Len(str) THEN <<>>
    ELSE LET c == str[i]
             until == CASE c = "(" -> ")"
                        [] c = "[" -> "]"
                        [] c = "{" -> "}"
                        [] OTHER -> scrubUntil
         IN  IF c \notin {"(", "[", "{"} /\ c = scrubUntil
             THEN stripBracketLike(str, i + 1, "")
             ELSE (IF until = "" THEN <<c>> ELSE <<>>) \o stripBracketLike(str, i + 1, until)

TypeUnknown == "unknown"
TypeEpisode == "episode"

\* a FromFile that looks for the marker in the name with its extension
FromFileQuery_WholeName(path) ==
    LET fileName      == Base(path)
        episodeGroups == FindStringSubmatch(fileName, 1)
    IN  IF episodeGroups.ok
        THEN [text    |-> CleanQuery(SubSeq(fileName, 1, Index(fileName, episodeGroups.g0, 0))),
              type    |-> TypeEpisode,
              season  |-> Atoi(TrimLeftZeros(episodeGroups.g1)),
              episode |-> Atoi(TrimLeftZeros(episodeGroups.g2))]
        ELSE [text    |-> CleanQuery(stripBracketLike(TrimExt(fileName), 1, "")),
              type    |-> TypeUnknown,
              season  |-> -1,
              episode |-> -1]

\* fileAnalysisSource.FromFile up to the delegation: the query handed to
\* FromQuery.  resolutionPattern and encodingPattern are removed from names
\* without a marker before the brackets are stripped; no name without a
\* marker in AnalysedNames has a match of either ('6', 'p' and 'i' are not in
\* NameChars, and the listed names without a marker have no such token).
FromFileQuery(path) ==
    LET fileName       == Base(path)
        nameWithoutExt == TrimExt(fileName)
        episodeGroups  == FindStringSubmatch(nameWithoutExt, 1)
    IN  IF episodeGroups.ok
        THEN [text    |-> CleanQuery(SubSeq(nameWithoutExt, 1,
                                            Index(nameWithoutExt, episodeGroups.g0, 0))),
              type    |-> TypeEpisode,
              season  |-> Atoi(TrimLeftZeros(episodeGroups.g1)),
              episode |-> Atoi(TrimLeftZeros(episodeGroups.g2))]
        ELSE [text    |-> CleanQuery(stripBracketLike(nameWithoutExt, 1, "")),
              type    |-> TypeUnknown,
              season  |-> -1,
              episode |-> -1]

NoQuery == [text |-> <<>>, type |-> "", season |-> 0, episode |-> 0]

\* the file names of TestFileAnalysisSource_FromFile
Name_ChicagoMedS06 ==
    <<"c", "h", "i", "c", "a", "g", "o", ".", "m", "e", "d", ".",
      "s", "0", "6", "e", "0", "9", ".", "7", "2", "0", "p", ".",
      "h", "d", "t", "v", ".", "x", "2", "6", "4", "-", "s", "y",
      "n", "c", "o", "p", "y", "[", "e", "z", "t", "v", ".", "r",
      "e", "]", ".", "m", "k", "v">>

Name_ChicagoMedS01 ==
    <<"C", "h", "i", "c", "a", "g", "o", ".", "M", "e", "d", ".",
      "S", "0", "1", "E", "1", "0", " ", "c", "z", ".", "t", "i",
      "t", ".", ".", "a", "v", "i">>

Name_Nemocnice ==
    <<"N", "e", "m", "o", "c", "n", "i", "c", "e", " ", "C", "h",
      "i", "c", "a", "g", "o", " ", "M", "e", "d", " ", "s", "0",
      "1", "x", "0", "9", " ", "C", "Z", "d", "a", "b", ".", "a",
      "v", "i">>

Name_Noragami ==
    <<"N", "o", "r", "a", "g", "a", "m", "i", " ", "A", "r", "a",
      "g", "o", "t", "o", " ", "1", "3", " ", "C", "Z", ".", "m",
      "k", "v">>

Name_Babovresky ==
    <<"B", "a", "b", "o", "v", "r", "e", "s", "k", "y", " ", "3",
      " ", "(", "2", "0", "1", "5", ")", " ", "[", "j", "u", "r",
      "a", "i", "s", "o", "n", "+", "]", ".", "a", "v", "i">>

ListedNames ==
    {Name_ChicagoMedS06, Name_ChicagoMedS01, Name_Nemocnice, Name_Noragami, Name_Babovresky}

\* every name of up to MaxName characters that markers, numbers, delimiters
\* and extensions are made of
MaxName == 5

NameChars == {"s", "E", "x", "0", "2", ".", " "}

AnalysedNames == (SeqsUpTo(NameChars, MaxName) \ {<<>>}) \cup ListedNames

IdleFa == [pc |-> "idle", name |-> <<>>, query |-> NoQuery]

\* FromFile is about to be called with the path of a file of that name
FaCalls == {[pc |-> "new", name |-> name, query |-> NoQuery] : name \in AnalysedNames}

\* FromFile runs and the query is delegated
FaFromFile ==
    /\ fa.pc = "new"
    /\ fa' = [fa EXCEPT !.pc = "done", !.query = FromFileQuery(Root \o <<fa.name>>)]

\* The tmdb source.  A remote call enters by the status code of its response;
\* the state of the source is [msc, ec, cfg]: movieSeriesCache, episodeCache
\* and whether config is set.  Every fetch returns [st, calls, m, err]: the
\* state it leaves, the remote calls it made, the metadata and the error.

Statuses == {200, 404, 500}

\* nil for a meta.Metadata
NoMeta == [kind |-> "none", id |-> 0]

\* the statuses of a call that has no case for 404
OkOrNot == {200, 500}

\* checkStatus
checkStatus(code) == IF code < 200 \/ code > 299 THEN "non-2xx" ELSE "nil"

Called(name, code) == [call |-> name, status |-> code]

\* source.fetchConfiguration
fetchConfiguration(st, r) ==
    IF st.cfg THEN [st |-> st, calls |-> <<>>, err |-> "nil"]
    ELSE IF checkStatus(r.config) # "nil"
    THEN [st |-> st, calls |-> <<Called("configuration", r.config)>>,
          err |-> "failed to fetch configuration"]
    ELSE [st |-> [st EXCEPT !.cfg = TRUE], calls |-> <<Called("configuration", r.config)>>,
          err |-> "nil"]

\* fetchMovie (kind = "movie") and fetchSeries (kind = "series") differ in the
\* remote calls and in the metadata they build.  After the credits call the
\* code tests checkStatus(res), the response of the details call, again.
fetchDetails(kind, st, id, r) ==
    LET details == Called(kind \o " details", r.details)
        credits == Called(kind \o " credits", r.credits)
        cfg     == fetchConfiguration(st, r)
        m       == [kind |-> kind, id |-> id]
    IN  IF id \in DOMAIN st.msc
        THEN [st |-> st, calls |-> <<>>, m |-> st.msc[id], err |-> "nil"]
        ELSE IF checkStatus(r.details) # "nil"
        THEN [st |-> st, calls |-> <<details>>, m |-> NoMeta,
              err |-> "failed to fetch " \o kind \o " details"]
        ELSE IF checkStatus(r.details) # "nil"
        THEN [st |-> st, calls |-> <<details, credits>>, m |-> NoMeta,
              err |-> "failed to fetch " \o kind \o " credits"]
        ELSE IF cfg.err # "nil"
        THEN [st |-> st, calls |-> <<details, credits>> \o cfg.calls, m |-> NoMeta,
              err |-> cfg.err]
        ELSE [st |-> [cfg.st EXCEPT !.msc = MapPut(@, id, m)],
              calls |-> <<details, credits>> \o cfg.calls, m |-> m, err |-> "nil"]

\* source.fetchMovie
fetchMovie(st, id, r) == fetchDetails("movie", st, id, r)

\* source.fetchSeries
fetchSeries(st, id, r) == fetchDetails("series", st, id, r)

\* source.fetchEpisode
fetchEpisode(st, id, season, episode, r) ==
    LET key        == <<id, season, episode>>
        seriesMeta == fetchSeries(st, id, r)
        called     == seriesMeta.calls \o <<Called("episode details", r.episode)>>
        cfg        == fetchConfiguration(seriesMeta.st, r)
        m          == [kind |-> "episode", id |-> id, series |-> seriesMeta.m]
    IN  IF key \in DOMAIN st.ec
        THEN [st |-> st, calls |-> <<>>, m |-> st.ec[key], err |-> "nil"]
        ELSE IF seriesMeta.err # "nil"
        THEN [seriesMeta EXCEPT !.err = "failed to fetch series metadata"]
        ELSE IF r.episode = 404
        THEN [st |-> seriesMeta.st, calls |-> called, m |-> NoMeta, err |-> "nil"]
        ELSE IF checkStatus(r.episode) # "nil"
        THEN [st |-> seriesMeta.st, calls |-> called, m |-> NoMeta,
              err |-> "failed to fetch episode details"]
        ELSE IF cfg.err # "nil"
        THEN [st |-> seriesMeta.st, calls |-> called \o cfg.calls, m |-> NoMeta, err |-> cfg.err]
        ELSE [st |-> [cfg.st EXCEPT !.ec = MapPut(@, key, m)],
              calls |-> called \o cfg.calls, m |-> m, err |-> "nil"]

\* a fetch after a search call: the calls of both
AfterSearch(name, r, f) == [f EXCEPT !.calls = <<Called(name, r.search)>> \o @]

SearchFailed(st, name, r) ==
    [st |-> st, calls |-> <<Called(name, r.search)>>, m |-> NoMeta, err |-> "failed to " \o name]

NoResult(st, name, r) ==
    [st |-> st, calls |-> <<Called(name, r.search)>>, m |-> NoMeta, err |-> "nil"]

\* source.searchMovie: results is the list of the response, [id, type] each
searchMovie(st, results, r) ==
    IF checkStatus(r.search) # "nil" THEN SearchFailed(st, "search movie", r)
    ELSE IF results = <<>> THEN NoResult(st, "search movie", r)
    ELSE AfterSearch("search movie", r, fetchMovie(st, results[1].id, r))

\* source.searchSeries
searchSeries(st, results, season, episode, r) ==
    IF checkStatus(r.search) # "nil" THEN SearchFailed(st, "search series", r)
    ELSE IF results = <<>> THEN NoResult(st, "search series", r)
    ELSE IF season >= 0 /\ episode >= 0
    THEN AfterSearch("search series", r, fetchEpisode(st, results[1].id, season, episode, r))
    ELSE AfterSearch("search series", r, fetchSeries(st, results[1].id, r))

\* source.searchMulti: the first result of media type movie or tv is fetched
searchMulti(st, results, r) ==
    LET hits == SelectSeq(results, LAMBDA x : x.type \in {"movie", "tv"})
    IN  IF checkStatus(r.search) # "nil" THEN SearchFailed(st, "search multi", r)
        ELSE IF hits = <<>> THEN NoResult(st, "search multi", r)
        ELSE IF hits[1].type = "movie"
        THEN AfterSearch("search multi", r, fetchMovie(st, hits[1].id, r))
        ELSE AfterSearch("search multi", r, fetchSeries(st, hits[1].id, r))

\* what the query asks the source to fetch: the fetch function FromQuery reaches
Wanted(type, results, season, episode) ==
    LET hits == SelectSeq(results, LAMBDA x : x.type \in {"movie", "tv"})
    IN  CASE type = "movie" -> IF results = <<>> THEN "" ELSE "movie"
          [] type \in {"series", "episode"} ->
                IF results = <<>> THEN ""
                ELSE IF season >= 0 /\ episode >= 0 THEN "episode" ELSE "series"
          [] OTHER -> IF hits = <<>> THEN ""
                      ELSE IF hits[1].type = "movie" THEN "movie" ELSE "series"

\* source.FromQuery: the switch on query.Type
FromQuery(st, type, results, season, episode, r) ==
    CASE type = "movie" -> searchMovie(st, results, r)
      [] type \in {"series", "episode"} -> searchSeries(st, results, season, episode, r)
      [] OTHER -> searchMulti(st, results, r)

TmdbState == [msc |-> movieSeriesCache, ec |-> episodeCache, cfg |-> config]

NoTret == [want |-> "", calls |-> <<>>, m |-> NoMeta, err |-> "nil", stored |-> FALSE]

\* tmdb.NewSource: nothing cached, no configuration
NewTmdb ==
    /\ movieSeriesCache = EmptyMap
    /\ episodeCache = EmptyMap
    /\ config = FALSE
    /\ tret = NoTret

\* one call of FromQuery with the responses the remote calls would get
TmdbFromQuery(type, results, season, episode, r) ==
    LET f == FromQuery(TmdbState, type, results, season, episode, r)
    IN  /\ movieSeriesCache' = f.st.msc
        /\ episodeCache' = f.st.ec
        /\ config' = f.st.cfg
        /\ tret' = [want |-> Wanted(type, results, season, episode),
                   calls |-> f.calls, m |-> f.m, err |-> f.err,
                   stored |-> f.st # TmdbState]

\* imcache: an entry of movieSeriesCache expires
TmdbExpire(id) ==
    /\ id \in DOMAIN movieSeriesCache
    /\ movieSeriesCache' = MapDel(movieSeriesCache, id)
    /\ UNCHANGED <<episodeCache, config, tret>>

\* no call on a metadata source is in progress
NewMeta ==
    /\ comp = IdleComp
    /\ fa = IdleFa
    /\ NewTmdb

-----------------------------------------------------------------------------
(* Specification of the base repository alone: sequential public calls and *)
(* a filesystem that changes between them.                                 *)

InitRepo ==
    /\ disk = {}
    /\ NewRepository
    /\ NewMuxRepository
    /\ cap = AllCaps
    /\ NewWatchRepository
    /\ NewIndexRepository
    /\ NewKMutex
    /\ NewCallers
    /\ NewWatcher
    /\ NewMeta

NextRepo ==
    \/ Scan /\ UNCHANGED <<muxVars, watchVars, indexVars, kmVars, baseVars, closeVars, metaVars>>
    \/ \E m \in MediaInputs : Add(m) /\ UNCHANGED <<muxVars, watchVars, indexVars, kmVars, baseVars, closeVars, metaVars>>
    \/ \E p \in Files : AddPath(p) /\ UNCHANGED <<muxVars, watchVars, indexVars, kmVars, baseVars, closeVars, metaVars>>
    \/ \E m \in MediaInputs : Remove(m) /\ UNCHANGED <<muxVars, watchVars, indexVars, kmVars, baseVars, closeVars, metaVars>>
    \/ \E p \in Files : RemovePath(p) /\ UNCHANGED <<muxVars, watchVars, indexVars, kmVars, baseVars, closeVars, metaVars>>
    \/ \E p \in Files : CreateFile(p) /\ UNCHANGED <<muxVars, watchVars, indexVars, kmVars, baseVars, closeVars, metaVars>>
    \/ \E p \in Files : DeleteFile(p) /\ UNCHANGED <<muxVars, watchVars, indexVars, kmVars, baseVars, closeVars, metaVars>>

SpecRepo == InitRepo /\ [][NextRepo]_vars

-----------------------------------------------------------------------------
(* Specification of the base repository called with paths inside and       *)
(* outside of its root; both files exist                                   *)

OutsideFiles == {File_A, File_out}

OutsideInputs ==
    {NewMedia(SanitizeID(Base(f)), g, DetectFile(g)) : f \in OutsideFiles, g \in OutsideFiles}

InitOutside ==
    /\ disk = OutsideFiles
    /\ NewRepository
    /\ NewMuxRepository
    /\ cap = AllCaps
    /\ NewWatchRepository
    /\ NewIndexRepository
    /\ NewKMutex
    /\ NewCallers
    /\ NewWatcher
    /\ NewMeta

NextOutside ==
    \/ \E m \in OutsideInputs : Add(m) /\ UNCHANGED <<muxVars, watchVars, indexVars, kmVars, baseVars, closeVars, metaVars>>
    \/ \E p \in OutsideFiles : AddPath(p) /\ UNCHANGED <<muxVars, watchVars, indexVars, kmVars, baseVars, closeVars, metaVars>>
    \/ \E m \in OutsideInputs : Remove(m) /\ UNCHANGED <<muxVars, watchVars, indexVars, kmVars, baseVars, closeVars, metaVars>>
    \/ \E p \in OutsideFiles : RemovePath(p) /\ UNCHANGED <<muxVars, watchVars, indexVars, kmVars, baseVars, closeVars, metaVars>>

SpecOutside == InitOutside /\ [][NextOutside]_vars

-----------------------------------------------------------------------------
(* Specifications of the mux decorator                                     *)

\* a scanned repository behind a fresh mux decorator
InitMux ==
    /\ disk = MuxFiles
    /\ itemsById = [id \in RemuxIds |->
          LET f == CHOOSE g \in MuxFiles : SanitizeID(Base(g)) = id
          IN  NewMedia(id, f, DetectFile(f))]
    /\ itemsByPath = [p \in {Rel(Root, f) : f \in MuxFiles} |->
          LET f == CHOOSE g \in MuxFiles : Rel(Root, g) = p
          IN  NewMedia(SanitizeID(Base(f)), f, DetectFile(f))]
    /\ ret = [op |-> "Scan", err |-> "nil"]
    /\ NewMuxRepository
    /\ cap \in MuxCaps
    /\ NewWatchRepository
    /\ NewIndexRepository
    /\ NewKMutex
    /\ NewCallers
    /\ NewWatcher
    /\ NewMeta

RemuxStep(c) ==
    \/ \E id \in RemuxIds, f \in TargetFormats : RemuxGet(c, id, f)
    \/ RemuxHash(c)
    \/ RemuxMake(c)
    \/ RemuxLock(c)
    \/ RemuxStat(c)
    \/ \E ok \in BOOLEAN : RemuxOpen(c, ok)
    \/ \E how \in ConvOutcomes : RemuxConv(c, how)
    \/ RemuxUnlock(c)
    \/ RemuxRelease(c)

\* concurrent Remux calls only
NextRemux == \E c \in Callers : RemuxStep(c)

SpecRemux == InitMux /\ [][NextRemux]_vars

\* a Remux call into MP4: a conversion for the MKV file, the fast path for
\* the MP4 file
RestartStep(c) ==
    \/ \E id \in RemuxIds : RemuxGet(c, id, FormatMP4)
    \/ RemuxHash(c)
    \/ RemuxMake(c)
    \/ RemuxLock(c)
    \/ RemuxStat(c)
    \/ \E ok \in BOOLEAN : RemuxOpen(c, ok)
    \/ \E how \in ConvOutcomes : RemuxConv(c, how)
    \/ RemuxUnlock(c)
    \/ RemuxRelease(c)

\* repeated concurrent Remux calls and restarts of the decorator
NextRestart ==
    \/ \E c \in Callers : RestartStep(c)
    \/ MuxRestart

SpecRestart == InitMux /\ [][NextRestart]_vars

\* two media of the repository with the same content: r/A.mkv, stored under
\* the id of its name, and its copy r/s/a.mkv, stored by Add under the id "s"
TwinFiles == {File_A, File_sa}

TwinId(f) == IF f = File_A THEN SanitizeID(Name_A) ELSE SanitizeID(Name_s)

TwinIds == {TwinId(f) : f \in TwinFiles}

InitTwin ==
    /\ disk = TwinFiles
    /\ itemsById = [id \in TwinIds |->
          LET f == CHOOSE g \in TwinFiles : TwinId(g) = id
          IN  NewMedia(id, f, DetectFile(f))]
    /\ itemsByPath = [p \in {Rel(Root, f) : f \in TwinFiles} |->
          LET f == CHOOSE g \in TwinFiles : Rel(Root, g) = p
          IN  NewMedia(TwinId(f), f, DetectFile(f))]
    /\ ret = [op |-> "Add", err |-> "nil"]
    /\ NewMuxRepository
    /\ cap = AllCaps
    /\ NewWatchRepository
    /\ NewIndexRepository
    /\ NewKMutex
    /\ NewCallers
    /\ NewWatcher
    /\ NewMeta

\* concurrent Remux calls into MP4 for the two media
TwinStep(c) ==
    \/ \E id \in TwinIds : RemuxGet(c, id, FormatMP4)
    \/ RemuxHash(c)
    \/ RemuxMake(c)
    \/ RemuxLock(c)
    \/ RemuxStat(c)
    \/ \E ok \in BOOLEAN : RemuxOpen(c, ok)
    \/ \E how \in ConvOutcomes : RemuxConv(c, how)
    \/ RemuxUnlock(c)
    \/ RemuxRelease(c)

NextTwin == \E c \in Callers : TwinStep(c)

SpecTwin == InitTwin /\ [][NextTwin]_vars

\* the format names of stream requests, and the media ids
StreamFormats == {"raw", "mp4", "mkv", "webm"}
StreamIds == RemuxIds \cup {<<"q">>}

\* concurrent stream requests
StreamStep(c) ==
    \/ \E id \in StreamIds, name \in StreamFormats : StreamRemux(c, id, name)
    \/ \E id \in StreamIds, name \in StreamFormats : StreamUnknown(c, id, name)
    \/ \E id \in StreamIds : StreamRaw(c, id)
    \/ RemuxHash(c)
    \/ RemuxMake(c)
    \/ RemuxLock(c)
    \/ RemuxStat(c)
    \/ \E ok \in BOOLEAN : RemuxOpen(c, ok)
    \/ \E how \in ConvOutcomes : RemuxConv(c, how)
    \/ RemuxUnlock(c)
    \/ RemuxRelease(c)
    \/ StreamRespond(c)

NextStream == \E c \in Callers : StreamStep(c)

SpecStream == InitMux /\ [][NextStream]_vars

\* no Remux call is in flight
Quiesced ==
    \A c \in Callers :
        call[c] \in {[IdleCall EXCEPT !.pc = p, !.boot = call[c].boot] : p \in {"idle", "done"}}

\* Remux and Scan calls of the decorator one after another (a call starts
\* when no other is in flight, the callers take their turns in order), files
\* that disappear and restarts of the process
NextGc ==
    \/ \E c \in Callers, id \in RemuxIds, f \in formats :
          /\ Quiesced /\ gc.pc = "idle"
          /\ \A d \in Callers : d < c => call[d].pc = "done"
          /\ RemuxGet(c, id, f)
    \/ \E c \in Callers : RemuxHash(c)
    \/ \E c \in Callers : RemuxMake(c)
    \/ \E c \in Callers : RemuxLock(c)
    \/ \E c \in Callers : RemuxStat(c)
    \/ \E c \in Callers, ok \in BOOLEAN : RemuxOpen(c, ok)
    \/ \E c \in Callers, how \in ConvOutcomes : RemuxConv(c, how)
    \/ \E c \in Callers : RemuxUnlock(c)
    \/ \E c \in Callers : RemuxRelease(c)
    \/ \E c \in Callers : RemuxReturn(c)
    \/ Quiesced /\ MuxScan
    \/ GcList
    \/ GcMake
    \/ GcLock
    \/ GcRemove
    \/ GcUnlock
    \/ GcRelease
    \/ GcReturn
    \/ \E f \in MuxFiles : DeleteFile(f) /\ UNCHANGED <<muxVars, watchVars, indexVars, kmVars, baseVars, closeVars, metaVars>>
    \/ Reboot

SpecGc == InitMux /\ [][NextGc]_vars

\* Remux, Remove and RemovePath calls of the decorator one after another,
\* and files that disappear
NextRm ==
    \/ \E c \in Callers, id \in RemuxIds, f \in formats :
          /\ Quiesced /\ gc.pc = "idle"
          /\ \A d \in Callers : d < c => call[d].pc = "done"
          /\ RemuxGet(c, id, f)
    \/ \E c \in Callers : RemuxHash(c)
    \/ \E c \in Callers : RemuxMake(c)
    \/ \E c \in Callers : RemuxLock(c)
    \/ \E c \in Callers : RemuxStat(c)
    \/ \E c \in Callers, ok \in BOOLEAN : RemuxOpen(c, ok)
    \/ \E c \in Callers, how \in ConvOutcomes : RemuxConv(c, how)
    \/ \E c \in Callers : RemuxUnlock(c)
    \/ \E c \in Callers : RemuxRelease(c)
    \/ \E c \in Callers : RemuxReturn(c)
    \/ \E f \in MuxFiles :
          Quiesced /\ MuxRemove(NewMedia(SanitizeID(Base(f)), f, DetectFile(f)))
    \/ \E f \in MuxFiles : Quiesced /\ MuxRemovePath(f)
    \/ GcList
    \/ GcMake
    \/ GcLock
    \/ GcRemove
    \/ GcUnlock
    \/ GcRelease
    \/ GcReturn
    \/ \E f \in MuxFiles : DeleteFile(f) /\ UNCHANGED <<muxVars, watchVars, indexVars, kmVars, baseVars, closeVars, metaVars>>

SpecRm == InitMux /\ [][NextRm]_vars

\* concurrent Remux calls and one mutating call at a time
NextMux ==
    \/ \E c \in Callers : RemuxStep(c)
    \/ \E f \in MuxFiles : MuxRemove(NewMedia(SanitizeID(Base(f)), f, DetectFile(f)))
    \/ \E f \in MuxFiles : MuxRemovePath(f)
    \/ MuxScan
    \/ GcList
    \/ GcMake
    \/ GcLock
    \/ GcRemove
    \/ GcUnlock
    \/ GcRelease
    \/ GcReturn

SpecMux == InitMux /\ [][NextMux]_vars

-----------------------------------------------------------------------------
(* Specification of the watch decorator                                    *)

\* an empty watched repository
InitWatch ==
    /\ disk = {}
    /\ NewRepository
    /\ NewMuxRepository
    /\ cap = AllCaps
    /\ NewWatchRepository
    /\ NewIndexRepository
    /\ NewKMutex
    /\ NewCallers
    /\ NewWatcher
    /\ NewMeta

NextWatch ==
    \/ \E p \in WatchFiles : FsWrite(p) /\ UNCHANGED <<muxVars, indexVars, kmVars, baseVars, closeVars, metaVars>>
    \/ \E p \in WatchFiles, op \in {"Remove", "Rename"} : FsRemove(p, op) /\ UNCHANGED <<muxVars, indexVars, kmVars, baseVars, closeVars, metaVars>>
    \/ LoopRecvWrite /\ UNCHANGED <<muxVars, indexVars, kmVars, baseVars, closeVars, metaVars>>
    \/ LoopReset /\ UNCHANGED <<muxVars, indexVars, kmVars, baseVars, closeVars, metaVars>>
    \/ LoopRecvRemove /\ UNCHANGED <<muxVars, indexVars, kmVars, baseVars, closeVars, metaVars>>
    \/ \E t \in TimerIds : FireTimer(t) /\ UNCHANGED <<muxVars, indexVars, kmVars, baseVars, closeVars, metaVars>>
    \/ \E p \in WatchFiles : HandlerStat(p) /\ UNCHANGED <<muxVars, indexVars, kmVars, baseVars, closeVars, metaVars>>
    \/ \E p \in WatchFiles : HandlerDetect(p) /\ UNCHANGED <<muxVars, indexVars, kmVars, baseVars, closeVars, metaVars>>
    \/ \E p \in WatchFiles : HandlerAddStat(p) /\ UNCHANGED <<muxVars, indexVars, kmVars, baseVars, closeVars, metaVars>>
    \/ \E p \in WatchFiles : HandlerInsert(p) /\ UNCHANGED <<muxVars, indexVars, kmVars, baseVars, closeVars, metaVars>>
    \/ \E p \in WatchFiles : HandlerDelete(p) /\ UNCHANGED <<muxVars, indexVars, kmVars, baseVars, closeVars, metaVars>>
    \/ Tick /\ UNCHANGED <<muxVars, indexVars, kmVars, baseVars, closeVars, metaVars>>

SpecWatch == InitWatch /\ [][NextWatch]_vars

\* the file whose events reach the loop while Close is called
CloseFiles == {File_A}

\* the watch decorator with Close: the filesystem sends no event once the
\* watcher is closed
NextClose ==
    \/ \E p \in CloseFiles : ~wclosed /\ FsWrite(p) /\ UNCHANGED <<muxVars, indexVars, kmVars, baseVars, closeVars, metaVars>>
    \/ \E p \in CloseFiles, op \in {"Remove", "Rename"} :
          ~wclosed /\ FsRemove(p, op) /\ UNCHANGED <<muxVars, indexVars, kmVars, baseVars, closeVars, metaVars>>
    \/ LoopRecvWrite /\ UNCHANGED <<muxVars, indexVars, kmVars, baseVars, closeVars, metaVars>>
    \/ LoopReset /\ UNCHANGED <<muxVars, indexVars, kmVars, baseVars, closeVars, metaVars>>
    \/ LoopRecvRemove /\ UNCHANGED <<muxVars, indexVars, kmVars, baseVars, closeVars, metaVars>>
    \/ LoopExit /\ UNCHANGED <<muxVars, indexVars, kmVars, baseVars, closeVars, metaVars>>
    \/ \E t \in TimerIds : FireTimer(t) /\ UNCHANGED <<muxVars, indexVars, kmVars, baseVars, closeVars, metaVars>>
    \/ \E p \in CloseFiles : HandlerStat(p) /\ UNCHANGED <<muxVars, indexVars, kmVars, baseVars, closeVars, metaVars>>
    \/ \E p \in CloseFiles : HandlerDetect(p) /\ UNCHANGED <<muxVars, indexVars, kmVars, baseVars, closeVars, metaVars>>
    \/ \E p \in CloseFiles : HandlerAddStat(p) /\ UNCHANGED <<muxVars, indexVars, kmVars, baseVars, closeVars, metaVars>>
    \/ \E p \in CloseFiles : HandlerInsert(p) /\ UNCHANGED <<muxVars, indexVars, kmVars, baseVars, closeVars, metaVars>>
    \/ \E p \in CloseFiles : HandlerDelete(p) /\ UNCHANGED <<muxVars, indexVars, kmVars, baseVars, closeVars, metaVars>>
    \/ Tick /\ UNCHANGED <<muxVars, indexVars, kmVars, baseVars, closeVars, metaVars>>
    \/ \E werr \in {"nil", "close"} : WatchClose(werr) /\ UNCHANGED <<muxVars, indexVars, kmVars, baseVars, metaVars>>

\* the event loop goroutine is scheduled as long as it can take a step
LoopStep ==
    /\ LoopRecvWrite \/ LoopReset \/ LoopRecvRemove \/ LoopExit
    /\ UNCHANGED <<muxVars, indexVars, kmVars, baseVars, closeVars, metaVars>>

SpecClose == InitWatch /\ [][NextClose]_vars /\ WF_vars(LoopStep)

-----------------------------------------------------------------------------
(* Specification of the index decorator: concurrent mutating calls, a      *)
(* concurrent reader, a filesystem on which every step of save may fail    *)

\* an empty repository over two media files, no index file yet
InitIndex ==
    /\ disk = IdxFiles
    /\ NewRepository
    /\ NewMuxRepository
    /\ cap = AllCaps
    /\ NewWatchRepository
    /\ NewIndexRepository
    /\ NewKMutex
    /\ NewCallers
    /\ NewWatcher
    /\ NewMeta

NextIndex ==
    \/ \E c \in IdxCallers : IdxScan(c) /\ UNCHANGED <<muxVars, watchVars, kmVars, baseVars, closeVars, metaVars>>
    \/ \E c \in IdxCallers, m \in IdxMedia : IdxAdd(c, m) /\ UNCHANGED <<muxVars, watchVars, kmVars, baseVars, closeVars, metaVars>>
    \/ \E c \in IdxCallers, p \in IdxFiles \cup {File_n} :
          IdxAddPath(c, p) /\ UNCHANGED <<muxVars, watchVars, kmVars, baseVars, closeVars, metaVars>>
    \/ \E c \in IdxCallers, m \in IdxMedia : IdxRemove(c, m) /\ UNCHANGED <<muxVars, watchVars, kmVars, baseVars, closeVars, metaVars>>
    \/ \E c \in IdxCallers, p \in IdxFiles :
          IdxRemovePath(c, p) /\ UNCHANGED <<muxVars, watchVars, kmVars, baseVars, closeVars, metaVars>>
    \/ \E c \in IdxCallers, ok \in BOOLEAN : SaveMarshal(c, ok) /\ UNCHANGED <<muxVars, watchVars, kmVars, baseVars, closeVars, metaVars>>
    \/ \E c \in IdxCallers, ok \in BOOLEAN : CopyRead(c, ok) /\ UNCHANGED <<muxVars, watchVars, kmVars, baseVars, closeVars, metaVars>>
    \/ \E c \in IdxCallers, ok \in BOOLEAN : CopyOpen(c, ok) /\ UNCHANGED <<muxVars, watchVars, kmVars, baseVars, closeVars, metaVars>>
    \/ \E c \in IdxCallers, ok \in BOOLEAN : CopyWrite(c, ok) /\ UNCHANGED <<muxVars, watchVars, kmVars, baseVars, closeVars, metaVars>>
    \/ \E c \in IdxCallers, ok \in BOOLEAN : WriteOpen(c, ok) /\ UNCHANGED <<muxVars, watchVars, kmVars, baseVars, closeVars, metaVars>>
    \/ \E c \in IdxCallers, ok \in BOOLEAN : WriteEnd(c, ok) /\ UNCHANGED <<muxVars, watchVars, kmVars, baseVars, closeVars, metaVars>>
    \/ \E c \in IdxCallers : IdxReturn(c) /\ UNCHANGED <<muxVars, watchVars, kmVars, baseVars, closeVars, metaVars>>
    \/ ReadItems /\ UNCHANGED <<muxVars, watchVars, kmVars, baseVars, closeVars, metaVars>>

SpecIndex == InitIndex /\ [][NextIndex]_vars

-----------------------------------------------------------------------------
(* Specification of save followed by load: one caller mutates the indexed  *)
(* repository, every save succeeds, and the repository is reopened         *)

ReloadFiles == {File_A, File_z, File_pct}

InitReload ==
    /\ disk = ReloadFiles
    /\ NewRepository
    /\ NewMuxRepository
    /\ cap = AllCaps
    /\ NewWatchRepository
    /\ NewIndexRepository
    /\ NewKMutex
    /\ NewCallers
    /\ NewWatcher
    /\ NewMeta

NextReload ==
    \/ IdxScan(1) /\ UNCHANGED <<muxVars, watchVars, kmVars, baseVars, closeVars, metaVars>>
    \/ \E m \in MediaInputs : IdxAdd(1, m) /\ UNCHANGED <<muxVars, watchVars, kmVars, baseVars, closeVars, metaVars>>
    \/ \E p \in ReloadFiles : IdxAddPath(1, p) /\ UNCHANGED <<muxVars, watchVars, kmVars, baseVars, closeVars, metaVars>>
    \/ \E m \in MediaInputs : IdxRemove(1, m) /\ UNCHANGED <<muxVars, watchVars, kmVars, baseVars, closeVars, metaVars>>
    \/ \E p \in ReloadFiles : IdxRemovePath(1, p) /\ UNCHANGED <<muxVars, watchVars, kmVars, baseVars, closeVars, metaVars>>
    \/ SaveMarshal(1, TRUE) /\ UNCHANGED <<muxVars, watchVars, kmVars, baseVars, closeVars, metaVars>>
    \/ CopyRead(1, TRUE) /\ UNCHANGED <<muxVars, watchVars, kmVars, baseVars, closeVars, metaVars>>
    \/ CopyOpen(1, TRUE) /\ UNCHANGED <<muxVars, watchVars, kmVars, baseVars, closeVars, metaVars>>
    \/ CopyWrite(1, TRUE) /\ UNCHANGED <<muxVars, watchVars, kmVars, baseVars, closeVars, metaVars>>
    \/ WriteOpen(1, TRUE) /\ UNCHANGED <<muxVars, watchVars, kmVars, baseVars, closeVars, metaVars>>
    \/ WriteEnd(1, TRUE) /\ UNCHANGED <<muxVars, watchVars, kmVars, baseVars, closeVars, metaVars>>
    \/ IdxReturn(1) /\ UNCHANGED <<muxVars, watchVars, kmVars, baseVars, closeVars, metaVars>>
    \/ \E logger \in BOOLEAN : Reopen(logger) /\ UNCHANGED <<muxVars, watchVars, kmVars, baseVars, closeVars, metaVars>>

SpecReload == InitReload /\ [][NextReload]_vars

\* the index decorator over a tree whose files disappear, reopened with and
\* without a logger
LoadFiles == {File_A, File_z}

InitLoad ==
    /\ disk = LoadFiles
    /\ NewRepository
    /\ NewMuxRepository
    /\ cap = AllCaps
    /\ NewWatchRepository
    /\ NewIndexRepository
    /\ NewKMutex
    /\ NewCallers
    /\ NewWatcher
    /\ NewMeta

NextLoad ==
    \/ IdxScan(1) /\ UNCHANGED <<muxVars, watchVars, kmVars, baseVars, closeVars, metaVars>>
    \/ \E p \in LoadFiles : IdxAddPath(1, p) /\ UNCHANGED <<muxVars, watchVars, kmVars, baseVars, closeVars, metaVars>>
    \/ \E p \in LoadFiles : IdxRemovePath(1, p) /\ UNCHANGED <<muxVars, watchVars, kmVars, baseVars, closeVars, metaVars>>
    \/ SaveMarshal(1, TRUE) /\ UNCHANGED <<muxVars, watchVars, kmVars, baseVars, closeVars, metaVars>>
    \/ CopyRead(1, TRUE) /\ UNCHANGED <<muxVars, watchVars, kmVars, baseVars, closeVars, metaVars>>
    \/ CopyOpen(1, TRUE) /\ UNCHANGED <<muxVars, watchVars, kmVars, baseVars, closeVars, metaVars>>
    \/ CopyWrite(1, TRUE) /\ UNCHANGED <<muxVars, watchVars, kmVars, baseVars, closeVars, metaVars>>
    \/ WriteOpen(1, TRUE) /\ UNCHANGED <<muxVars, watchVars, kmVars, baseVars, closeVars, metaVars>>
    \/ WriteEnd(1, TRUE) /\ UNCHANGED <<muxVars, watchVars, kmVars, baseVars, closeVars, metaVars>>
    \/ IdxReturn(1) /\ UNCHANGED <<muxVars, watchVars, kmVars, baseVars, closeVars, metaVars>>
    \/ \E p \in LoadFiles : DeleteFile(p) /\ UNCHANGED <<muxVars, watchVars, indexVars, kmVars, baseVars, closeVars, metaVars>>
    \/ \E p \in LoadFiles : CreateFile(p) /\ UNCHANGED <<muxVars, watchVars, indexVars, kmVars, baseVars, closeVars, metaVars>>
    \/ \E logger \in BOOLEAN : Reopen(logger) /\ UNCHANGED <<muxVars, watchVars, kmVars, baseVars, closeVars, metaVars>>

SpecLoad == InitLoad /\ [][NextLoad]_vars

-----------------------------------------------------------------------------
(* Specification of concurrent Add, AddPath and Scan on the base repository *)

\* the file the concurrent calls insert, and the tree it lies in
Target == File_A

ConcFiles == {File_A, File_sa}

\* Add is called for Target under the id AddPath derives and under another id
ConcInputs ==
    {NewMedia(SanitizeID(Base(f)), Target, DetectFile(Target)) : f \in {File_A, File_z}}

InitConc ==
    /\ disk = ConcFiles
    /\ NewRepository
    /\ NewMuxRepository
    /\ cap = AllCaps
    /\ NewWatchRepository
    /\ NewIndexRepository
    /\ NewKMutex
    /\ NewCallers
    /\ NewWatcher
    /\ NewMeta

NextConc ==
    \/ \E c \in BaseCallers, m \in ConcInputs :
          BaseAdd(c, m) /\ UNCHANGED <<muxVars, watchVars, indexVars, kmVars, closeVars, metaVars>>
    \/ \E c \in BaseCallers :
          BaseAddPath(c, Target) /\ UNCHANGED <<muxVars, watchVars, indexVars, kmVars, closeVars, metaVars>>
    \/ \E c \in BaseCallers :
          BaseLocked(c) /\ UNCHANGED <<muxVars, watchVars, indexVars, kmVars, closeVars, metaVars>>
    \/ \E c \in BaseCallers :
          BaseScan(c) /\ UNCHANGED <<muxVars, watchVars, indexVars, kmVars, closeVars, metaVars>>

SpecConc == InitConc /\ [][NextConc]_vars

------------------------------------------------------------------------------
(* Specification of the keyed mutex used by concurrent goroutines          *)

InitKMutex ==
    /\ disk = {}
    /\ NewRepository
    /\ NewMuxRepository
    /\ cap = AllCaps
    /\ NewWatchRepository
    /\ NewIndexRepository
    /\ NewKMutex
    /\ NewCallers
    /\ NewWatcher
    /\ NewMeta

NextKMutex ==
    \/ \E g \in Goroutines, key \in Keys :
          GoMake(g, key) /\ UNCHANGED <<repoVars, muxVars, watchVars, indexVars, baseVars, closeVars, metaVars>>
    \/ \E g \in Goroutines : GoLock(g) /\ UNCHANGED <<repoVars, muxVars, watchVars, indexVars, baseVars, closeVars, metaVars>>
    \/ \E g \in Goroutines : GoUnlock(g) /\ UNCHANGED <<repoVars, muxVars, watchVars, indexVars, baseVars, closeVars, metaVars>>
    \/ \E g \in Goroutines : GoRelease(g) /\ UNCHANGED <<repoVars, muxVars, watchVars, indexVars, baseVars, closeVars, metaVars>>

SpecKMutex == InitKMutex /\ [][NextKMutex]_vars

\* KMutex.Do(key, action) called repeatedly by every goroutine for one key:
\* Make, Lock, the action, Unlock, Release
DoKey == "k1"

NextDo ==
    \/ \E g \in Goroutines :
          GoMake(g, DoKey) /\ UNCHANGED <<repoVars, muxVars, watchVars, indexVars, baseVars, closeVars, metaVars>>
    \/ \E g \in Goroutines : GoLock(g) /\ UNCHANGED <<repoVars, muxVars, watchVars, indexVars, baseVars, closeVars, metaVars>>
    \/ \E g \in Goroutines : GoUnlock(g) /\ UNCHANGED <<repoVars, muxVars, watchVars, indexVars, baseVars, closeVars, metaVars>>
    \/ \E g \in Goroutines :
          /\ kg[g].pc = "unlocked"
          /\ GoRelease(g)
          /\ UNCHANGED <<repoVars, muxVars, watchVars, indexVars, baseVars, closeVars, metaVars>>

SpecDo == InitKMutex /\ [][NextDo]_vars

------------------------------------------------------------------------------
(* Specifications of the metadata sources: a composite source over children *)
(* of every outcome, the file analysis of bounded and listed names, and the *)
(* tmdb source under every status of its remote calls.                      *)

InitMeta == InitKMutex

NextComp ==
    \/ \E op \in {"FromFile", "FromQuery"}, kids \in SeqsUpTo(ChildOutcomes, MaxChildren) :
          /\ CompStart(op, kids)
          /\ UNCHANGED <<fa, movieSeriesCache, episodeCache, config, tret>>
          /\ UNCHANGED <<repoVars, muxVars, watchVars, indexVars, kmVars, baseVars, closeVars>>
    \/ /\ CompNext
       /\ UNCHANGED <<fa, movieSeriesCache, episodeCache, config, tret>>
       /\ UNCHANGED <<repoVars, muxVars, watchVars, indexVars, kmVars, baseVars, closeVars>>
    \/ /\ CompReturn
       /\ UNCHANGED <<fa, movieSeriesCache, episodeCache, config, tret>>
       /\ UNCHANGED <<repoVars, muxVars, watchVars, indexVars, kmVars, baseVars, closeVars>>

SpecComp == InitMeta /\ [][NextComp]_vars

InitFa ==
    /\ disk = {}
    /\ NewRepository
    /\ NewMuxRepository
    /\ cap = AllCaps
    /\ NewWatchRepository
    /\ NewIndexRepository
    /\ NewKMutex
    /\ NewCallers
    /\ NewWatcher
    /\ comp = IdleComp
    /\ NewTmdb
    /\ fa \in FaCalls

NextFa ==
    /\ FaFromFile
    /\ UNCHANGED <<comp, movieSeriesCache, episodeCache, config, tret>>
    /\ UNCHANGED <<repoVars, muxVars, watchVars, indexVars, kmVars, baseVars, closeVars>>

SpecFa == InitFa /\ [][NextFa]_vars

\* the numeric ids of the remote database: a movie and a series share the id
TmdbIds == {1}

\* the list of a search response: empty or one result
SearchResults == {<<>>} \cup {<<[id |-> id, type |-> t]>> : id \in TmdbIds, t \in {"movie", "tv", "person"}}

QueryTypes == {"unknown", "movie", "series", "episode"}

\* the status of the response of each remote call the operation may make
Responses == [search : OkOrNot, details : OkOrNot, credits : OkOrNot,
              episode : Statuses, config : OkOrNot]

NextTmdb ==
    \/ \E type \in QueryTypes, results \in SearchResults, se \in {<<-1, -1>>, <<1, 1>>},
          r \in Responses :
          /\ TmdbFromQuery(type, results, se[1], se[2], r)
          /\ UNCHANGED <<comp, fa>>
          /\ UNCHANGED <<repoVars, muxVars, watchVars, indexVars, kmVars, baseVars, closeVars>>
    \/ \E id \in TmdbIds :
          /\ TmdbExpire(id)
          /\ UNCHANGED <<comp, fa>>
          /\ UNCHANGED <<repoVars, muxVars, watchVars, indexVars, kmVars, baseVars, closeVars>>

SpecTmdb == InitMeta /\ [][NextTmdb]_vars

-----------------------------------------------------------------------------
(* Claims on the base repository, under SpecRepo                           *)

\* C1: after any sequence of Scan, Add, AddPath, Remove and RemovePath the two
\* indices hold the same set of media: every media stored under its id is
\* stored under rel(path) and conversely, and the two maps have the same size.
C1_IndicesInSync ==
    /\ Cardinality(DOMAIN itemsById) = Cardinality(DOMAIN itemsByPath)
    /\ \A id \in DOMAIN itemsById :
          /\ itemsById[id].id = id
          /\ Rel(Root, itemsById[id].path) \in DOMAIN itemsByPath
          /\ itemsByPath[Rel(Root, itemsById[id].path)] = itemsById[id]
    /\ \A p \in DOMAIN itemsByPath :
          /\ Rel(Root, itemsByPath[p].path) = p
          /\ itemsByPath[p].id \in DOMAIN itemsById
          /\ itemsById[itemsByPath[p].id] = itemsByPath[p]

IsMediaFile(path) == MimeGroup(DetectFile(path)) \in allowedMimeGroups

Hidden(path) == \E i \in 1..Len(Rel(Root, path)) : DotPrefixed(Rel(Root, path)[i])

\* C2: a Scan of a tree that holds media files and a non-media file succeeds,
\* and every media file of the tree (not dot-prefixed) is indexed afterwards.
C2_ScanSkipsNonMedia ==
    (ret.op = "Scan" /\ \E f \in disk : ~IsMediaFile(f))
        => /\ ret.err = "nil"
           /\ \A f \in disk : (IsMediaFile(f) /\ ~Hidden(f))
                                  => Rel(Root, f) \in DOMAIN itemsByPath

-----------------------------------------------------------------------------
(* Claims on the mux decorator                                             *)

\* the conversion of caller c is in flight (muxRepo.remux entered, not returned)
Converting(c) == call[c].pc \in {"open", "conv"}

\* the calls that ask for the same id and format as caller c
SameCall(c) == {d \in Callers : call[d].id = call[c].id /\ call[d].fmt = call[c].fmt}

DstOf(c) == RemuxedPath(makeHash(call[c].m.path), call[c].fmt)

\* C3 (under SpecRemux): concurrent Remux(id, format) calls on one source whose
\* MIME differs from the target never convert that source at the same time, and
\* once they have all returned a media the converter has been invoked exactly
\* once for the destination and every call returned the same cache file.
C3_SingleFlight ==
    /\ \A c, d \in Callers :
          (c # d /\ Converting(c) /\ Converting(d)) => call[c].m.path # call[d].m.path
    /\ (\A c \in Callers : call[c].pc = "done") =>
          \A c \in Callers :
             (/\ call[c].m # NoMedia
              /\ call[c].m.mime # call[c].fmt.mime
              /\ \A d \in SameCall(c) : call[d].err = "nil")
                => /\ DstOf(c) \in DOMAIN conv
                   /\ conv[DstOf(c)] = 1
                   /\ \A d \in SameCall(c) :
                         call[d].res = Relocated(call[c].m, DstOf(c), call[c].fmt.mime)

\* two calls for the same id and format have both returned the cache file
C3_Witness ==
    \E c, d \in Callers :
       /\ c # d
       /\ \A e \in Callers : call[e].pc = "done"
       /\ d \in SameCall(c)
       /\ call[c].m # NoMedia
       /\ call[c].m.mime # call[c].fmt.mime
       /\ call[c].err = "nil" /\ call[d].err = "nil"
       /\ call[c].res.path = DstOf(c) /\ call[d].res.path = DstOf(c)
       /\ DstOf(c) \in DOMAIN cache

\* C4 (under SpecMux): a deletion of a cache file by the decorator never runs
\* while a conversion that writes the same cache file is in flight.
C4_DeleteExcludesConversion ==
    \A c \in Callers :
       ~(gc.pc = "rm" /\ call[c].pc = "conv" /\ call[c].dst = Head(gc.todo))

-----------------------------------------------------------------------------
(* Claims on the watch decorator, under SpecWatch                          *)

\* the goroutines that are inside handleFsEvent for path p
Running(p) == hs[<<p, "stat">>] + hs[<<p, "detect">>] + hs[<<p, "addstat">>]
                 + hs[<<p, "insert">>]

\* nothing is pending for path p: no event, no armed timer, no goroutine
Quiet(p) ==
    /\ \A i \in 1..Len(events) : events[i].name # p
    /\ loop.pc = "recv"
    /\ \A t \in TimerIds : ~(tm[t].st = "armed" /\ tm[t].name = p)
    /\ Running(p) = 0
    /\ hs[<<p, "delete">>] = 0

Indexed(p) == Rel(Root, p) \in DOMAIN itemsByPath

\* C5: at most one handleFsEvent runs per absolute path at any time.
C5_OneHandlerPerPath == \A p \in WatchFiles : Running(p) <= 1

C7_IndexFollowsDisk ==
    \A p \in WatchFiles : Quiet(p) => (Indexed(p) <=> p \in disk)

-----------------------------------------------------------------------------
(* Claims on the index decorator, under SpecIndex                          *)

\* C8: while a mutating call of the index decorator is between its
\* delegated mutation and the end of its save, a concurrent reader (Items)
\* never observes a set of media other than the set the index file records
\* (the file recorded the in-memory set when the call began).
C8_DiskNeverLags ==
    (obs.seen /\ obs.inflight) => obs.same

IdxQuiescent == \A c \in IdxCallers : ic[c].pc = "idle"

\* C9: once every save has returned, with or without an error, the file
\* <index>.old, when it exists, holds a completely written index.
C9_OldIsComplete ==
    (IdxQuiescent /\ oldFile.exists) => oldFile.complete

\* a save has just returned nil, and so did the save before it
TwoSaves(c) ==
    /\ ic[c].pc = "ret"
    /\ Len(saves) = 2
    /\ saves[1].ok
    /\ saves[2].ok

\* C10: when a save returns nil directly after a save that returned nil,
\* the index file holds the items of the current save and <index>.old holds
\* exactly what the preceding save wrote.
C10_OldIsPrevious ==
    \A c \in IdxCallers :
        TwoSaves(c) => /\ idxFile = Written(saves[2].data)
                       /\ oldFile = Written(saves[1].data)

\* two successive successful saves of different item sets have returned
C10_Witness ==
    \E c \in IdxCallers :
        /\ TwoSaves(c)
        /\ saves[1].data # saves[2].data
        /\ saves[1].data # {}
        /\ oldFile = Written(saves[1].data)

-----------------------------------------------------------------------------
(* Claims on save followed by load, under SpecReload                       *)

\* C11: when an index decorator is opened over a fresh base repository on
\* the index file a save has written, and every persisted path exists on
\* disk, load succeeds and Items() holds the same ids with the same paths
\* as the saved set.
C11_RoundTrip ==
    (ret.op = "load" /\ \A item \in idxFile.items : Join(Root, item.path) \in disk)
        => /\ ret.err = "nil"
           /\ Marshal(Items) = idxFile.items

-----------------------------------------------------------------------------
(* Claims on the keyed mutex, under SpecKMutex                             *)

AllIdle == \A g \in Goroutines : kg[g].pc = "idle"

\* C12: once every goroutine has finished its balanced sequences of
\* Make(key), Lock, Unlock, Release(key), whatever the interleaving, no key
\* is left in the map.
C12_KeyAbsentAfterUse ==
    AllIdle => DOMAIN kmx = {}

\* all goroutines have run all their sequences, one of them on a key that
\* another goroutine held at the time
C12_Witness ==
    /\ AllIdle
    /\ \A g \in Goroutines : kg[g].iter = MaxIter
    /\ \E g \in Goroutines : kg[g].joined
    /\ DOMAIN kmx = {}

\* the goroutines whose Make(key) has no Release(key) yet
Holders(key) == {g \in Goroutines : kg[g].pc # "idle" /\ kg[g].key = key}

\* C13: while Make(key) calls outnumber Release(key) calls the key is in
\* the map, every such Make returned the instance in the map, and its
\* reference count is the difference of the two numbers; when the numbers
\* are equal the key is not in the map, so no entry has a zero count.
C13_ReferenceCounting ==
    \A key \in Keys :
        IF Holders(key) # {}
        THEN /\ key \in DOMAIN kmx
             /\ \A g \in Holders(key) : kg[g].mu = kmx[key]
             /\ insts[kmx[key]].refCount = Cardinality(Holders(key))
        ELSE key \notin DOMAIN kmx

\* two goroutines hold the same instance of one key
C13_Witness ==
    \E key \in Keys :
        /\ Cardinality(Holders(key)) = 2
        /\ key \in DOMAIN kmx
        /\ insts[kmx[key]].refCount = 2

\* C14: a goroutine that waits in Lock for its key is kept waiting only
\* by a goroutine that holds the lock of the same key: an action running
\* under another key never blocks it.
C14_DistinctKeysNeverContend ==
    \A g \in Goroutines :
        (kg[g].pc = "made" /\ insts[kg[g].mu].owner # 0)
            => kg[insts[kg[g].mu].owner].key = kg[g].key

\* two actions run at once under two different keys
C14_Witness ==
    \E g, h \in Goroutines :
        /\ kg[g].pc = "action"
        /\ kg[h].pc = "action"
        /\ kg[g].key # kg[h].key

-----------------------------------------------------------------------------
(* Claims on Remux, under SpecRemux and SpecRestart                        *)

\* the call of c takes the fast path: the media is found and its MIME type
\* is that of the target format
FastPath(c) ==
    /\ call[c].m # NoMedia
    /\ call[c].m.mime = call[c].fmt.mime

\* C15: a Remux call whose source MIME type equals the target MIME type
\* returns at once the media stored in the repository: it computes no
\* fingerprint and no destination, takes no keyed lock and leaves the cache
\* directory and the converter untouched.
C15_FastPath ==
    [][\A c \in Callers :
          (call[c].pc = "idle" /\ call'[c].pc # "idle" /\ FastPath(c)')
              => /\ call'[c].pc = "done"
                 /\ call'[c].err = "nil"
                 /\ call'[c].res = itemsById[call'[c].id]
                 /\ call'[c].dst = <<>>
                 /\ UNCHANGED <<cache, mx, conv>>]_vars

\* a call has returned through the fast path
C15_Witness ==
    \E c \in Callers :
        /\ call[c].pc = "done"
        /\ FastPath(c)
        /\ call[c].res = call[c].m

\* C16: once a Remux(id, f) has returned without error, no later call
\* invokes the converter for its destination, also after a restart of the
\* decorator over the same cache directory; and every successful call that
\* leaves the fast path returns the destination
\* <remux_dir>/<fingerprint>.<ext> of its source and format.
C16_Idempotent ==
    /\ [][\A d \in okd :
             d \in DOMAIN conv' => (d \in DOMAIN conv /\ conv'[d] = conv[d])]_vars
    /\ [](\A c \in Callers :
             (call[c].pc = "done" /\ call[c].err = "nil" /\ call[c].m # NoMedia
                 /\ ~FastPath(c))
                 => call[c].res = Relocated(call[c].m,
                                            RemuxedPath(makeHash(call[c].m.path), call[c].fmt),
                                            call[c].fmt.mime))

\* after a restart a call finds the file an earlier instance converted:
\* it is about to test the destination, which is complete and was
\* converted once, and no other call was made since the restart
C16_Witness ==
    \E c \in Callers :
        /\ call[c].pc = "stat"
        /\ call[c].boot > 0
        /\ call[c].dst \in DOMAIN cache
        /\ cache[call[c].dst] = "complete"
        /\ call[c].dst \in DOMAIN conv
        /\ conv[call[c].dst] = 1
        /\ call[c].dst \in okd
        /\ \A e \in Callers \ {c} : call[e].pc = "idle"

\* C17: a file exists at a destination path only while a conversion is
\* writing it or after a conversion into it has completed, and a Remux call
\* that returns a relocated media returns the path of a completed output.
C17_NoPartialOutput ==
    /\ \A d \in DOMAIN cache :
          cache[d] = "partial" => \E c \in Callers : call[c].pc = "conv" /\ call[c].dst = d
    /\ \A c \in Callers :
          (call[c].pc = "done" /\ call[c].err = "nil" /\ call[c].m # NoMedia
              /\ ~FastPath(c))
              => (call[c].res.path \in DOMAIN cache /\ cache[call[c].res.path] = "complete")

-----------------------------------------------------------------------------
(* Claims on Add and Remove of the base repository                         *)

\* the error Add(m) returns for the checks the claim names, in the order in
\* which Add makes them; "stat" when the file of m is missing
AddError(m) ==
    IF ~ValidID(m.id) THEN "ErrInvalidID"
    ELSE IF MimeGroup(m.mime) \notin allowedMimeGroups THEN "ErrInvalidMediaType"
    ELSE IF m.path \notin disk THEN "stat"
    ELSE IF m.id \in DOMAIN itemsById THEN "ErrDuplicateID"
    ELSE IF Rel(Root, m.path) \in DOMAIN itemsByPath THEN "ErrDuplicatePath"
    ELSE "nil"

\* C18: Add(m) fails with InvalidID when the id does not match
\* ^[a-z0-9-_]+$, with InvalidMediaType when the MIME group is neither video
\* nor audio, with DuplicateID when the id is indexed and with DuplicatePath
\* when the relative path is indexed (each when no earlier check of Add has
\* failed), and a failing Add leaves both indices as they were.
C18_AddErrors ==
    [][\A m \in MediaInputs :
          Add(m) => /\ ret'.err = AddError(m)
                    /\ ret'.err # "nil" => UNCHANGED <<itemsById, itemsByPath>>
                    /\ ret'.err = "nil" =>
                          /\ itemsById' = MapPut(itemsById, m.id, m)
                          /\ itemsByPath' = MapPut(itemsByPath, Rel(Root, m.path), m)]_vars

\* an Add has failed on a repository that holds media
C18_Witness ==
    /\ ret.op = "Add"
    /\ ret.err \in {"ErrInvalidID", "ErrInvalidMediaType", "ErrDuplicateID", "ErrDuplicatePath"}
    /\ DOMAIN itemsById # {}

\* the repository holds m: its id is stored together with its relative path
Holds(m) ==
    /\ m.id \in DOMAIN itemsById
    /\ Rel(Root, m.path) \in DOMAIN itemsByPath
    /\ itemsById[m.id].path = m.path
    /\ itemsByPath[Rel(Root, m.path)].id = m.id

\* C20: Remove(m) of a media the repository does not hold and
\* RemovePath(p) of a path that is not indexed return nil and leave both
\* indices unchanged.
C20_RemoveAbsentIsNoOp ==
    [][/\ \A m \in MediaInputs :
             (Remove(m) /\ ~Holds(m)) =>
                 (ret'.err = "nil" /\ UNCHANGED <<itemsById, itemsByPath>>)
       /\ \A p \in Files :
             (RemovePath(p) /\ Rel(Root, p) \notin DOMAIN itemsByPath) =>
                 (ret'.err = "nil" /\ UNCHANGED <<itemsById, itemsByPath>>)]_vars

\* the path lies under the repository root
UnderRoot(path) ==
    /\ Len(path) > Len(Root)
    /\ SubSeq(path, 1, Len(Root)) = Root

\* C19: every media stored in the repository has a path under the root
\* directory, and its key in the path index does not leave the root.
C19_PathsUnderRoot ==
    /\ \A id \in DOMAIN itemsById : UnderRoot(itemsById[id].path)
    /\ \A p \in DOMAIN itemsByPath :
          /\ UnderRoot(itemsByPath[p].path)
          /\ p[1] # <<".", ".">>

\* C21: when Add(m) succeeds, Remove(m) applied to the resulting state gives
\* back both indices, and with them Items(), exactly as they were before
\* the Add.
C21_AddRemoveInverse ==
    [][\A m \in MediaInputs :
          (Add(m) /\ ret'.err = "nil") =>
              removeItem([byId |-> itemsById', byPath |-> itemsByPath'],
                         m.id, Rel(Root, m.path))
                  = [byId |-> itemsById, byPath |-> itemsByPath]]_vars

\* an Add has succeeded on a repository that already held media
C21_Witness ==
    /\ ret = [op |-> "Add", err |-> "nil"]
    /\ Cardinality(DOMAIN itemsByPath) >= 2

\* C22: every media stored in the repository, under either index and
\* whichever operation stored it, has an id that matches ^[a-z0-9-_]+$.
C22_StoredIdsValid ==
    /\ \A id \in DOMAIN itemsById : ValidID(id) /\ ValidID(itemsById[id].id)
    /\ \A p \in DOMAIN itemsByPath : ValidID(itemsByPath[p].id)

\* C23: no two entries of the path index carry the same id.
C23_IdsUnique ==
    \A p, q \in DOMAIN itemsByPath :
        itemsByPath[p].id = itemsByPath[q].id => p = q

\* C24: a stream request with a format other than raw that is answered with
\* the bytes of a media carries the MIME type of the requested format as
\* its Content-Type, and the path of the media Remux returned.
C24_StreamContentType ==
    \A c \in Callers :
        (call[c].pc = "sent" /\ call[c].resp.status = 200 /\ ~call[c].resp.raw)
            => /\ call[c].resp.mime = call[c].fmt.mime
               /\ call[c].resp.path = call[c].res.path

\* the fingerprints of the media in Items()
LiveHashes == {makeHash(m.path) : m \in Items}

\* C25: when Scan of the mux decorator has returned nil, every file in the
\* cache directories is named by the fingerprint of a media in Items(), and
\* no file this Scan removed is named by the fingerprint of such a media.
C25_GarbageCollection ==
    (gc.pc = "done" /\ gc.op = "Scan" /\ gc.err = "nil")
        => /\ \A f \in DOMAIN cache : TrimExt(Base(f)) \in LiveHashes
           /\ \A f \in gc.gone : TrimExt(Base(f)) \notin LiveHashes

\* a Scan has returned nil after it removed a cache file and kept another
C25_Witness ==
    /\ gc.pc = "done" /\ gc.op = "Scan" /\ gc.err = "nil"
    /\ gc.gone # {}
    /\ DOMAIN cache # {}

\* C26: RemovePath(path) through the mux decorator leaves the path out of
\* the path index, and Remove(m) leaves the id and the path of m out of both
\* indices, as the same calls on the wrapped repository do, also when the
\* source file is no longer on disk.
C26_RemovalPreserved ==
    [][\A f \in MuxFiles :
          /\ MuxRemovePath(f) => Rel(Root, f) \notin DOMAIN itemsByPath'
          /\ MuxRemove(NewMedia(SanitizeID(Base(f)), f, DetectFile(f)))
                => /\ SanitizeID(Base(f)) \notin DOMAIN itemsById'
                   /\ Rel(Root, f) \notin DOMAIN itemsByPath']_vars

\* C27: in the index decorator save starts only after the delegated call
\* returned nil; a delegated call that fails returns its error to the
\* caller and the call modifies neither the index file nor <index>.old; a
\* save that fails returns its error to the caller.
C27_SaveOnlyOnSuccess ==
    [][\A c \in IdxCallers :
          /\ (ic[c].pc = "idle" /\ ic'[c].pc = "save") => ret'.err = "nil"
          /\ (ic[c].pc = "idle" /\ ic'[c].pc # "idle" /\ ret'.err # "nil")
                => /\ ic'[c].pc = "ret"
                   /\ ic'[c].err = ret'.err
                   /\ UNCHANGED <<idxFile, oldFile>>
          /\ (ic[c].pc = "ret" /\ ic'[c].pc = "idle") => UNCHANGED <<idxFile, oldFile>>
          /\ (ic[c].pc \in InSave /\ ic'[c].pc = "ret" /\ ~saves'[Len(saves')].ok)
                => ic'[c].err = "save"
          /\ (ic[c].pc \in InSave /\ ic'[c].pc = "ret" /\ saves'[Len(saves')].ok)
                => ic'[c].err = "nil"]_vars

\* a delegated call has failed while an index file exists
C27_Witness ==
    \E c \in IdxCallers :
        /\ ic[c].pc = "ret"
        /\ ic[c].err \notin {"nil", "save"}
        /\ idxFile.exists

\* C28: the load of index.NewRepository.  Without an index file it returns
\* nil and the wrapped repository holds nothing.  With an index file it
\* returns nil, every persisted item whose file exists is stored under its
\* id with the absolute path of the file, and every persisted item whose
\* file is gone is left out.
C28_Load ==
    ret.op = "load" =>
        /\ ~idxFile.exists => (ret.err = "nil" /\ Items = {})
        /\ (idxFile.exists /\ idxFile.complete) =>
              /\ ret.err = "nil"
              /\ \A item \in idxFile.items :
                    IF Join(Root, item.path) \in disk
                    THEN /\ item.id \in DOMAIN itemsById
                         /\ itemsById[item.id].path = Join(Root, item.path)
                         /\ item.path \in DOMAIN itemsByPath
                    ELSE /\ item.id \notin DOMAIN itemsById
                         /\ item.path \notin DOMAIN itemsByPath

\* C29: concurrent Add, AddPath and Scan calls for the same file leave exactly
\* one entry for it in each index: once every caller has returned, the file is
\* stored under its relative path and under exactly one id, exactly one call
\* inserted it, and every other Add or AddPath caller got ErrDuplicateID or
\* ErrDuplicatePath.
C29_OneInsertion ==
    (\A c \in BaseCallers : ac[c].pc = "done")
        => /\ Rel(Root, Target) \in DOMAIN itemsByPath
           /\ Cardinality({id \in DOMAIN itemsById : itemsById[id].path = Target}) = 1
           /\ Cardinality({c \in BaseCallers : Rel(Root, Target) \in ac[c].took}) = 1
           /\ \A c \in BaseCallers :
                 (ac[c].op \in {"Add", "AddPath"} /\ Rel(Root, Target) \notin ac[c].took)
                     => ac[c].err \in {"ErrDuplicateID", "ErrDuplicatePath"}

\* C30: Close on the watch decorator closes the watcher and calls Close of the
\* wrapped repository whether or not the watcher's Close failed; a second Close
\* returns nil; once the watcher is closed the event loop eventually returns.
C30_Close ==
    /\ [](\A i \in 1..Len(closes) :
             /\ wclosed
             /\ closes[i].delegated
             /\ (i > 1 => closes[i].err = "nil"))
    /\ (wclosed ~> loop.pc = "exit")

C30_Witness ==
    /\ Len(closes) = 2
    /\ closes[1].werr = "close"
    /\ closes[1].delegated
    /\ closes[2].err = "nil"
    /\ loop.pc = "exit"

\* C31: once Close on the watch decorator has returned no event handler runs:
\* no handler is started and AddPath is not invoked on the wrapped repository,
\* also when a debounce timer was pending at the time of Close.
C31_NoHandlerAfterClose ==
    [][Len(closes) > 0 =>
          \A p \in WatchFiles : /\ hist'[p].runs = hist[p].runs
                                /\ hist'[p].adds = hist[p].adds]_vars

\* C32: when a mutating call through the index decorator returns an error,
\* from the wrapped repository or from save, Items() is what it was before
\* the call.
C32_FailedCallKeepsItems ==
    \A c \in IdxCallers :
        (ic[c].pc = "ret" /\ ic[c].err # "nil") => Items = ic[c].before

\* C33: a mux decorator built with one of the two capabilities walks its cache
\* successfully: Scan, Remove and RemovePath return nil when the wrapped call,
\* the fingerprinting and every deletion of a cache file succeeded.
C33_OneCapabilityWalk ==
    (gc.pc = "done" /\ cap # AllCaps /\ ret.err = "nil" /\ gc.err \notin {"hash", "remove"})
        => gc.err = "nil"

\* C34: at most one conversion writes a given destination cache file at any
\* time, also when two media of the repository have the same fingerprint and
\* Remux is called concurrently for both with the same target format.
C34_OneWriterPerDestination ==
    \A c, d \in Callers :
        (c # d /\ call[c].pc = "conv" /\ call[d].pc = "conv") => call[c].dst # call[d].dst

\* C35: in every interleaving of concurrent Do(key, f) calls at most one
\* action of a key runs at a time, also after the entry of the key was deleted
\* at reference count zero and created again.
C35_OneActionPerKey ==
    \A g, h \in Goroutines :
        (g # h /\ kg[g].pc = "action" /\ kg[h].pc = "action") => kg[g].key # kg[h].key

\* in a later call a goroutine that created the entry of the key again runs
\* its action while another goroutine waits for the lock of the same key
C35_Witness ==
    \E g, h \in Goroutines :
        /\ g # h
        /\ kg[g].pc = "action" /\ kg[g].iter > 0 /\ ~kg[g].joined
        /\ kg[h].pc = "made" /\ kg[h].key = kg[g].key /\ kg[h].mu = kg[g].mu

\* C36: the composite source asks its children in order; it returns the
\* metadata of the first child that has one, the error of a child at once,
\* without asking a later child, and nil without error when every child
\* returned nil or there is no child.
FirstAnswer(kids) ==
    IF \A i \in 1..Len(kids) : kids[i] = "none" THEN 0
    ELSE CHOOSE i \in 1..Len(kids) :
             /\ kids[i] # "none"
             /\ \A j \in 1..(i - 1) : kids[j] = "none"

C36_FirstAnswer ==
    LET first == FirstAnswer(comp.kids)
        last  == IF first = 0 THEN Len(comp.kids) ELSE first
    IN  /\ comp.asked = [i \in 1..Len(comp.asked) |-> i]
        /\ comp.pc = "loop" => \A i \in 1..Len(comp.asked) : comp.kids[i] = "none"
        /\ comp.pc = "done" =>
              /\ comp.asked = [i \in 1..last |-> i]
              /\ first = 0 => (comp.m = None /\ comp.err = None)
              /\ (first # 0 /\ comp.kids[last] = "err") =>
                    (comp.err = <<"err", first>> /\ comp.m = None)
              /\ (first # 0 /\ comp.kids[last] = "meta") =>
                    (comp.m = <<"meta", first>> /\ comp.err = None)

\* the second of three children fails: its error is returned and the third
\* child, which has a metadata, was not asked
C36_Witness ==
    /\ comp.pc = "done"
    /\ comp.kids = <<"none", "err", "meta">>
    /\ comp.asked = <<1, 2>>
    /\ comp.err = <<"err", 2>>
    /\ comp.m = None

\* The query C37 describes, stated without the steps of FromFile.  A marker
\* is S, digits, E or X, digits; spaced allows one space before the E or X.
IsNumber(str) == str # <<>> /\ \A i \in 1..Len(str) : str[i] \in Digits

\* <<p, a, b, c>>: S at p, the season in p+1..a, E or X at b, the episode in b+1..c
MarkersOf(str, spaced) ==
    {mk \in (1..Len(str)) \X (1..Len(str)) \X (1..Len(str)) \X (1..Len(str)) :
        /\ str[mk[1]] \in {"s", "S"}
        /\ mk[2] > mk[1] /\ IsNumber(SubSeq(str, mk[1] + 1, mk[2]))
        /\ \/ mk[3] = mk[2] + 1
           \/ spaced /\ mk[3] = mk[2] + 2 /\ str[mk[2] + 1] = " "
        /\ str[mk[3]] \in {"e", "E", "x", "X"}
        /\ mk[4] > mk[3] /\ IsNumber(SubSeq(str, mk[3] + 1, mk[4]))
        /\ (mk[4] < Len(str) => str[mk[4] + 1] \notin Digits)}

\* the number a run of digits writes
RECURSIVE NumberOf(_)
NumberOf(str) ==
    IF str = <<>> THEN 0
    ELSE 10 * NumberOf(SubSeq(str, 1, Len(str) - 1)) + DigitVal(str[Len(str)])

\* the words of str, which '-', '_', '.' and spaces separate, with one space
\* between two words
RECURSIVE Normalised(_, _, _)
Normalised(str, out, gap) ==
    IF str = <<>> THEN out
    ELSE IF Head(str) \in {"-", "_", ".", " "}
    THEN Normalised(Tail(str), out, out # <<>>)
    ELSE Normalised(Tail(str), out \o (IF gap THEN <<" ">> ELSE <<>>) \o <<Head(str)>>, FALSE)

\* the query is the one of a marker looked for in str
QueryOfMarker(query, str, spaced) ==
    LET found == MarkersOf(str, spaced)
        mk    == CHOOSE x \in found : \A y \in found : x[1] <= y[1]
    IN  IF found = {}
        THEN query.type = TypeUnknown /\ query.season = -1 /\ query.episode = -1
        ELSE /\ query.type = TypeEpisode
             /\ query.season = NumberOf(SubSeq(str, mk[1] + 1, mk[2]))
             /\ query.episode = NumberOf(SubSeq(str, mk[3] + 1, mk[4]))
             /\ query.text = Normalised(SubSeq(str, 1, mk[1] - 1), <<>>, FALSE)

ChicagoMedQuery ==
    [text |-> <<"c", "h", "i", "c", "a", "g", "o", " ", "m", "e", "d">>,
     type |-> TypeEpisode, season |-> 6, episode |-> 9]

C38_NonOkIsError ==
    \A i \in 1..Len(tret.calls) :
        ( /\ tret.calls[i].status \notin 200..299
          /\ ~(tret.calls[i].call = "episode details" /\ tret.calls[i].status = 404) )
            => (tret.err # "nil" /\ ~tret.stored)

\* C39: a lookup of a movie returns the metadata of a movie and a lookup of a
\* series the metadata of a series, whatever was looked up and cached before.
C39_RightKind ==
    (tret.err = "nil" /\ tret.want \in {"movie", "series"} /\ tret.m # NoMeta)
        => tret.m.kind = tret.want

====
